---- MODULE Spec2Model ----
(***************************************************************************)
(* KiroGate: credential manager (kiro_gateway/auth.py), retrying upstream  *)
(* client (kiro_gateway/http_client.py), request translator                *)
(* (kiro_gateway/converters.py), event stream parser                       *)
(* (kiro_gateway/parsers.py) and key verification (kiro_gateway/routes.py). *)
(*                                                                         *)
(* The gateway runs on one asyncio event loop: a coroutine runs without    *)
(* interruption from one await that suspends to the next.  Every action of *)
(* the credential/retry model is one such run: it starts where a task is   *)
(* resumed (a call, a granted lock, an HTTP response, the end of a sleep)  *)
(* and ends where the task suspends again or finishes.  The run is written *)
(* as a function from the state record S to the next state record.         *)
(***************************************************************************)
EXTENDS Integers, Sequences, FiniteSets

VARIABLES
    access_token,   \* KiroAuthManager._access_token (NoToken = None)
    expires_at,     \* KiroAuthManager._expires_at, seconds (NoExpiry = None)
    refresh_token,  \* KiroAuthManager._refresh_token (NoToken = None)
    lock,           \* KiroAuthManager._lock: Free or the task holding it
    waiters,        \* FIFO queue of tasks suspended in _lock.acquire()
    now,            \* wall clock, seconds
    issued,         \* number of tokens the refresh endpoint has issued
    pc,             \* per task: where it is suspended
    op,             \* per task: the call it is running: get / force / request
    inner,          \* per task: the manager call in progress: get / force
    stream,         \* per task: request_with_retry's stream argument
    attempt,        \* per task: request_with_retry's loop variable
    rattempt,       \* per task: _execute_refresh_request's loop variable
    last_error,     \* per task: _execute_refresh_request's last_error
    rlast,          \* per task: how the last refresh POST ended and the wait it set
    res,            \* per task: how the call ended
    log,            \* per task: the upstream requests of the current call
    lastGet,        \* per task: the last return of get_access_token
    lastForce,      \* per task: the last return of force_refresh
    open,           \* per task: streaming responses the call opened and did not close
    noTok,          \* per task: loop iterations whose get_access_token raised
    ends,           \* per task: how each attempt of request_with_retry that went on ended
    queued,         \* per task: the manager call in progress had to wait for the lock
    posts,          \* the refresh POSTs of the manager: the token sent, the answer
    httpCalls,      \* refresh POSTs issued by the manager
    expiredSeen,    \* get_access_token calls that found the token missing or expiring
    forceSeen,      \* force_refresh calls that reached the refresh
    calls,          \* calls started so far
    messages,       \* ChatCompletionRequest.messages, the live objects
    sent,           \* the messages as the client sent them
    merged,         \* what merge_adjacent_messages returned
    payload,        \* what build_kiro_payload returned
    previous,       \* what the call of build_kiro_payload before the last returned
    cpc,            \* translator: "input", "merged", "built", "rebuilt" or "rejected"
    arg,            \* a function of parsers.py / converters.py: its arguments
    ret,            \* what the function returned
    fpc,            \* the function: "idle", "called", "returned", ...
    chunks,         \* the chunks of the upstream body, in the order they arrive
    nfed,           \* how many of them were given to AwsEventStreamParser.feed
    buffer,         \* AwsEventStreamParser.buffer
    last_content,   \* AwsEventStreamParser.last_content (NoContent = None)
    current_tool_call,  \* AwsEventStreamParser.current_tool_call (NoCall = None)
    tool_calls,     \* AwsEventStreamParser.tool_calls
    events,         \* the events feed returned so far
    frames,         \* the JSON texts feed cut out of the buffer so far
    has_file,       \* KiroAuthManager._creds_file is set
    creds,          \* the credentials file on disk
    creds_before,   \* the file when _save_credentials_to_file was called
    profile_arn,    \* KiroAuthManager._profile_arn ("" = None)
    response_data,  \* _process_refresh_response: its argument data
    rpc,            \* _process_refresh_response: the statement it is at
    wpc,            \* _save_credentials_to_file: the statement it is at
    existing_data,  \* _save_credentials_to_file: its local existing_data
    crashed,        \* the process was killed
    cache,          \* AuthCache: its entries (key, manager), oldest first
    built,          \* AuthCache: managers constructed so far
    touched,        \* per key: the operation that last looked it up (0 = never)
    nops,           \* AuthCache: operations so far
    cache_op,       \* AuthCache: the last operation and what it did
    dialect,        \* ResponseStreamer: "openai" or "anthropic"
    upstream,       \* ResponseStreamer: the decoder events still to come
    sse,            \* ResponseStreamer: the SSE events written downstream
    block_index,    \* ResponseStreamer: current block index (-1 = none yet)
    block_kind,     \* ResponseStreamer: current block kind ("none" = no block open)
    spc,            \* ResponseStreamer: "idle", "streaming", "done" or "cancelled"
    http_client,    \* GlobalHTTPClientManager._client (NoClient = None)
    closed_clients, \* the clients whose is_closed is true
    pool_lock,      \* GlobalHTTPClientManager._lock: its holder, or Free
    pool_waiters,   \* the tasks waiting for that lock, oldest first
    gpc,            \* per task: where it is in get_client / close
    received,       \* per task: the client its last get_client returned
    handed,         \* the (task, client) pairs get_client returned, in order
    nclients,       \* clients constructed so far
    nclosed,        \* clients closed so far
    pool_ops        \* calls of get_client and close so far

authVars == <<access_token, expires_at, refresh_token, lock, waiters, now, issued,
              pc, op, inner, stream, attempt, rattempt, last_error, rlast, res, log,
              lastGet, lastForce, open, noTok, ends, queued, posts,
              httpCalls, expiredSeen, forceSeen, calls>>

convVars == <<messages, sent, merged, payload, previous, cpc>>

funVars == <<arg, ret, fpc>>

parserVars == <<chunks, nfed, buffer, last_content, current_tool_call, tool_calls,
                events, frames>>

saveVars == <<has_file, creds, creds_before, profile_arn, response_data, rpc, wpc,
              existing_data, crashed>>

cacheVars == <<cache, built, touched, nops, cache_op>>

streamVars == <<dialect, upstream, sse, block_index, block_kind, spc>>

poolVars == <<http_client, closed_clients, pool_lock, pool_waiters, gpc, received,
              handed, nclients, nclosed, pool_ops>>

vars == <<authVars, convVars, funVars, parserVars, saveVars, cacheVars, streamVars, poolVars>>

nonAuthVars == <<convVars, funVars, parserVars, saveVars, cacheVars, streamVars, poolVars>>
nonConvVars == <<authVars, funVars, parserVars, saveVars, cacheVars, streamVars, poolVars>>
nonFunVars == <<authVars, convVars, parserVars, saveVars, cacheVars, streamVars, poolVars>>
nonParserVars == <<authVars, convVars, funVars, saveVars, cacheVars, streamVars, poolVars>>
nonCacheVars == <<authVars, convVars, funVars, parserVars, saveVars, streamVars, poolVars>>
nonStreamVars == <<authVars, convVars, funVars, parserVars, saveVars, cacheVars, poolVars>>
nonPoolVars == <<authVars, convVars, funVars, parserVars, saveVars, cacheVars, streamVars>>

----------------------------------------------------------------------------
(* Bounds of the model *)

Tasks == {"t1", "t2"}

\* the tasks that call the GlobalHTTPClientManager
Callers == {"c1", "c2", "c3"}

\* the refresh tokens given to the AuthCache
CacheKeys == {"r1", "r2", "r3", "r4"}

\* settings.auth_cache_size, the bound of the AuthCache (default 100)
auth_cache_size == 2

\* AuthCache operations in one behaviour
MaxCacheOps == 4

\* decoder events in one streamed response
MaxEvents == 3

\* calls of get_client and close in one behaviour
MaxPoolOps == 4

\* calls started in one behaviour
MaxCalls == 2

\* refresh POSTs answered in one behaviour
MaxRefreshPosts == 3

\* the clock stops here
MaxTime == 600

\* the clock advances in steps of TickStep seconds
TickStep == 300

\* messages in one request
MaxMsgs == 3

\* characters in a text given to find_matching_brace
MaxText == 5

\* pieces in one upstream body
MaxPieces == 3

\* the longest list of tool calls given to deduplicate_tool_calls
MaxList == 3

\* tool frames given to one parser
MaxFrames == 3

\* the longest key in a header, in pieces
MaxKey == 3

\* tools in one request
MaxTools == 2

----------------------------------------------------------------------------
(* Program constants *)

NoToken == 0
NoExpiry == -1
NoExpiresIn == 0
Free == "free"

\* GlobalHTTPClientManager._client is None; a client is the number of its construction
NoClient == 0

\* config.TOKEN_REFRESH_THRESHOLD (default 300 s)
TOKEN_REFRESH_THRESHOLD == 300

\* _execute_refresh_request: max_retries = 3
REFRESH_MAX_RETRIES == 3

\* _execute_refresh_request: base_delay = 1.0
REFRESH_BASE_DELAY == 1

\* data.get("expiresIn", 3600)
DEFAULT_EXPIRES_IN == 3600

\* "minus 60 seconds buffer"
EXPIRY_BUFFER == 60

\* settings.max_retries, settings.first_token_max_retries
max_retries == 3
first_token_max_retries == 2

\* expiresIn values a refresh response may carry (NoExpiresIn: key absent)
ExpiresInValues == {NoExpiresIn, 300}

\* what an upstream request can end in
UpstreamOutcomes == {"200", "403", "429", "5xx", "other", "timeout", "neterr"}

\* what a refresh POST can end in
RefreshOutcomes == {"ok", "no_access_token", "retry_status", "fatal_status",
                    "ConnectError", "TimeoutException", "RequestError"}

----------------------------------------------------------------------------
(* The state as a record *)

S == [access_token |-> access_token, expires_at |-> expires_at,
      refresh_token |-> refresh_token, lock |-> lock, waiters |-> waiters,
      now |-> now, issued |-> issued, pc |-> pc, op |-> op, inner |-> inner,
      stream |-> stream, attempt |-> attempt, rattempt |-> rattempt,
      last_error |-> last_error, rlast |-> rlast, res |-> res, log |-> log, lastGet |-> lastGet,
      lastForce |-> lastForce, open |-> open,
      noTok |-> noTok, ends |-> ends, queued |-> queued, posts |-> posts,
      httpCalls |-> httpCalls, expiredSeen |-> expiredSeen,
      forceSeen |-> forceSeen, calls |-> calls,
      profile_arn |-> profile_arn, creds |-> creds]

\* the variables take the values of the record (bound once, by \E)
Commit(state) ==
    \E s \in {state} :
        /\ s.httpCalls <= MaxRefreshPosts
        /\ access_token' = s.access_token
        /\ expires_at' = s.expires_at
        /\ refresh_token' = s.refresh_token
        /\ lock' = s.lock
        /\ waiters' = s.waiters
        /\ now' = s.now
        /\ issued' = s.issued
        /\ pc' = s.pc
        /\ op' = s.op
        /\ inner' = s.inner
        /\ stream' = s.stream
        /\ attempt' = s.attempt
        /\ rattempt' = s.rattempt
        /\ last_error' = s.last_error
        /\ rlast' = s.rlast
        /\ res' = s.res
        /\ log' = s.log
        /\ lastGet' = s.lastGet
        /\ lastForce' = s.lastForce
        /\ open' = s.open
        /\ noTok' = s.noTok
        /\ ends' = s.ends
        /\ queued' = s.queued
        /\ posts' = s.posts
        /\ httpCalls' = s.httpCalls
        /\ expiredSeen' = s.expiredSeen
        /\ forceSeen' = s.forceSeen
        /\ calls' = s.calls
        /\ profile_arn' = s.profile_arn
        /\ creds' = s.creds
        /\ UNCHANGED <<has_file, creds_before, response_data, rpc, wpc, existing_data,
                       crashed>>
        /\ UNCHANGED <<convVars, funVars, parserVars, cacheVars, streamVars, poolVars>>

NoRes == [kind |-> "none", code |-> ""]
NoGet == [tok |-> NoToken, margin |-> 0, expiresIn |-> -1]
NoForce == [st |-> "none", tok |-> NoToken, margin |-> 0]
NoPost == [out |-> "none", delay |-> 0]
NoContent == [t |-> "None", s |-> <<>>, m |-> <<>>]
NoCall == [id |-> "None", name |-> <<>>, arguments |-> <<>>]
NoFile == [kind |-> "absent", json |-> <<>>]
NoPayload == [ok |-> FALSE, history |-> <<>>, content |-> <<>>, toolResults |-> <<>>]

\* datetime.isoformat(): the text of a time, not the time
isoformat(t) == [iso |-> t]

NoIso == isoformat(NoExpiry)

\* existing_data = {}
EmptyData == [accessToken |-> NoToken, refreshToken |-> NoToken, expiresAt |-> NoIso,
              profileArn |-> "", region |-> ""]

JsonFile(d) == [kind |-> "json", json |-> d]

\* a file written by an earlier login or refresh
OldFile == JsonFile([accessToken |-> 1, refreshToken |-> 1, expiresAt |-> isoformat(300),
                     profileArn |-> "", region |-> "us-east-1"])

----------------------------------------------------------------------------
(* KiroAuthManager and KiroHttpClient.request_with_retry *)

RECURSIVE HandleException(_, _, _)
RECURSIVE ReturnFromAuth(_, _)

\* the call of task c ends: a value is returned or an exception leaves it
Finish(s, c, kind, code) ==
    [s EXCEPT !.pc[c] = "done", !.res[c] = [kind |-> kind, code |-> code]]

\* is_token_expiring_soon
is_token_expiring_soon(s) ==
    IF s.expires_at = NoExpiry
    THEN TRUE
    ELSE s.expires_at <= s.now + TOKEN_REFRESH_THRESHOLD

\* mutant: an exception or a return leaves the lock held
ReleaseNothing(s) == s

\* leaving `async with self._lock`
Release(s) == [s EXCEPT !.lock = Free]

\* an exception leaves get_access_token / force_refresh: the lock is released and
\* the exception reaches the caller
RaiseFromAuth(s, c, exc) ==
    IF s.op[c] = "request"
    THEN HandleException(
            [Release(s) EXCEPT
                !.noTok[c] = IF s.inner[c] = "get" THEN @ + 1 ELSE @,
                !.lastForce[c] = IF s.inner[c] = "force"
                                 THEN [NoForce EXCEPT !.st = "raised"] ELSE @],
            c, exc)
    ELSE Finish(Release(s), c, "exc", exc)

\* one POST of _execute_refresh_request is sent
PostRefresh(s, c, k) ==
    [s EXCEPT !.pc[c] = "refresh_http", !.rattempt[c] = k, !.httpCalls = @ + 1,
              !.posts = Append(@, [sent |-> s.refresh_token, accepted |-> FALSE,
                                   got |-> NoToken])]

\* _refresh_token_request -> _refresh_token_social / _refresh_token_idc
refresh_token_request(s, c) ==
    IF s.refresh_token = NoToken
    THEN RaiseFromAuth(s, c, "ValueError")
    ELSE PostRefresh([s EXCEPT !.rlast[c] = NoPost], c, 0)

\* get_access_token, lines 498-501
GetReturn(s, c, e) ==
    IF s.access_token = NoToken
    THEN RaiseFromAuth(s, c, "ValueError")
    ELSE ReturnFromAuth(
            [Release(s) EXCEPT !.lastGet[c] =
                [tok |-> s.access_token, margin |-> s.expires_at - s.now,
                 expiresIn |-> e]], c)

\* mutant: get_access_token refreshes without looking at the token it holds
GetLockedAlways(s, c) == refresh_token_request(s, c)

\* get_access_token, lines 495-496, the lock held
GetLocked(s, c) ==
    IF s.access_token = NoToken \/ is_token_expiring_soon(s)
    THEN refresh_token_request([s EXCEPT !.expiredSeen = @ + 1], c)
    ELSE GetReturn(s, c, -1)

\* force_refresh, line 513, the lock held
ForceLocked(s, c) ==
    refresh_token_request([s EXCEPT !.forceSeen = @ + 1], c)

\* force_refresh, line 514
ForceReturn(s, c) ==
    ReturnFromAuth(
        [Release(s) EXCEPT !.lastForce[c] =
            [st |-> "ok", tok |-> s.access_token,
             margin |-> s.expires_at - s.now]], c)

Locked(s, c) == IF s.inner[c] = "get" THEN GetLocked(s, c) ELSE ForceLocked(s, c)

\* mutant: the manager call runs without waiting for the lock
AcquireUnlocked(s, c, call) ==
    Locked([s EXCEPT !.inner[c] = call, !.queued[c] = FALSE, !.lock = c], c)

\* `async with self._lock` entered by task c for the manager call `call`:
\* asyncio.Lock.acquire takes a free lock nobody waits for, and queues otherwise
Acquire(s, c, call) ==
    LET s1 == [s EXCEPT !.inner[c] = call, !.queued[c] = FALSE]
    IN  IF s1.lock = Free /\ s1.waiters = <<>>
        THEN Locked([s1 EXCEPT !.lock = c], c)
        ELSE [s1 EXCEPT !.pc[c] = "lock_wait", !.waiters = Append(@, c),
                        !.queued[c] = TRUE]

\* a refresh that takes the new access token and keeps the refresh token it had
ProcessKeepsRefreshToken(s, c, data) ==
    IF data.accessToken = NoToken
    THEN RaiseFromAuth(s, c, "ValueError")
    ELSE LET expires_in == IF data.expiresIn = NoExpiresIn
                           THEN DEFAULT_EXPIRES_IN ELSE data.expiresIn
             s1 == [s EXCEPT !.access_token = data.accessToken,
                             !.expires_at = s.now + expires_in - EXPIRY_BUFFER,
                             !.posts[Len(s.posts)].accepted = TRUE]
         IN  IF s.inner[c] = "get"
             THEN GetReturn(s1, c, expires_in)
             ELSE ForceReturn(s1, c)

\* _save_credentials_to_file, lines 279-286: existing_data after the updates
UpdatedData(existing, d, rt, ea, pa) ==
    [existing EXCEPT
        !.accessToken = d.accessToken,
        !.refreshToken = IF d.refreshToken # NoToken THEN d.refreshToken ELSE rt,
        !.expiresAt = IF ea # NoExpiry THEN isoformat(ea) ELSE @,
        !.profileArn = IF d.profileArn # "" THEN d.profileArn
                       ELSE IF pa # "" THEN pa ELSE @]

\* _save_credentials_to_file as one step, on a disk whose writes succeed: the
\* file after the call (a file that cannot be parsed is left as it is)
save_credentials_to_file(s, data) ==
    IF ~has_file \/ s.creds.kind = "truncated"
    THEN s.creds
    ELSE JsonFile(UpdatedData(IF s.creds.kind = "json" THEN s.creds.json ELSE EmptyData,
                              data, s.refresh_token, s.expires_at, s.profile_arn))

\* _process_refresh_response
process_refresh_response(s, c, data) ==
    IF data.accessToken = NoToken
    THEN RaiseFromAuth(s, c, "ValueError")
    ELSE LET expires_in == IF data.expiresIn = NoExpiresIn
                           THEN DEFAULT_EXPIRES_IN ELSE data.expiresIn
             new_expires_at == s.now + expires_in - EXPIRY_BUFFER
             s1 == [s EXCEPT !.posts[Len(s.posts)].accepted = TRUE,
                             !.creds = save_credentials_to_file(s, data),
                             !.profile_arn = IF data.profileArn # ""
                                             THEN data.profileArn ELSE @,
                             !.access_token = data.accessToken,
                             !.refresh_token = IF data.refreshToken # NoToken
                                               THEN data.refreshToken ELSE @,
                             !.expires_at = new_expires_at]
         IN  IF s.inner[c] = "get"
             THEN GetReturn(s1, c, expires_in)
             ELSE ForceReturn(s1, c)

\* settings.first_token_max_retries if stream else settings.max_retries
MaxAttempts(st) == IF st THEN first_token_max_retries ELSE max_retries

\* request_with_retry, lines 183-196: the request is sent with the token
SendUpstream(s, c) ==
    [s EXCEPT !.pc[c] = "up_http",
              !.log[c] = Append(@, [out |-> "pending", tok |-> s.access_token,
                                    nref |-> s.expiredSeen + s.forceSeen])]

\* mutant: the two exhaustion statuses are exchanged
LoopHeadSwapped(s, c) ==
    IF s.attempt[c] < MaxAttempts(s.stream[c])
    THEN Acquire(s, c, "get")
    ELSE Finish(s, c, "exc", IF s.stream[c] THEN "502" ELSE "504")

\* request_with_retry, head of `for attempt in range(max_retries)` and lines 239-249
LoopHead(s, c) ==
    IF s.attempt[c] < MaxAttempts(s.stream[c])
    THEN Acquire(s, c, "get")
    ELSE Finish(s, c, "exc", IF s.stream[c] THEN "504" ELSE "502")

\* mutant: `continue` starts the same iteration again
NextAttemptSame(s, c) == LoopHead(s, c)

\* the loop goes to its next iteration
NextAttempt(s, c) == LoopHead([s EXCEPT !.attempt[c] = @ + 1], c)

\* settings.base_retry_delay, the unit of the waits of request_with_retry
base_retry_delay == 1

\* delay = settings.base_retry_delay * (2 ** attempt)
BackoffDelay(k) == base_retry_delay * 2 ^ k

\* the attempt of task c ends in `cause` and the loop goes on; slept: with a wait;
\* forced: the attempt was answered 403 and had called force_refresh
AttemptEnds(s, c, cause, slept) ==
    [s EXCEPT !.ends[c] = Append(@, [attempt |-> s.attempt[c], cause |-> cause,
                                     forced |-> s.inner[c] = "force",
                                     slept |-> slept,
                                     delay |-> IF slept THEN BackoffDelay(s.attempt[c])
                                               ELSE 0])]

\* await asyncio.sleep(delay) in request_with_retry
Backoff(s, c, cause) == [AttemptEnds(s, c, cause, TRUE) EXCEPT !.pc[c] = "up_sleep"]

\* a manager call returns to its caller (the record is bound once, by the set)
ReturnFromAuth(state, c) ==
    LET returned == {IF s.op[c] = "request"
                     THEN IF s.inner[c] = "get" THEN SendUpstream(s, c)
                          ELSE NextAttempt(AttemptEnds(s, c, "403", FALSE), c)
                     ELSE Finish(s, c, "token", "ok") : s \in {state}}
    IN  CHOOSE next \in returned : TRUE

\* mutant: only the upstream's own transport errors are caught by the loop
HandleExceptionOfUpstream(s, c, exc) ==
    IF exc = "TimeoutException" /\ s.pc[c] = "up_http"
    THEN IF s.stream[c] THEN NextAttempt(AttemptEnds(s, c, exc, FALSE), c)
         ELSE Backoff(s, c, exc)
    ELSE IF exc = "RequestError" /\ s.pc[c] = "up_http"
    THEN Backoff(s, c, exc)
    ELSE Finish(s, c, "exc", exc)

\* request_with_retry, the except clauses, lines 224-237
HandleException(s, c, exc) ==
    IF exc = "TimeoutException"
    THEN IF s.stream[c] THEN NextAttempt(AttemptEnds(s, c, exc, FALSE), c)
         ELSE Backoff(s, c, exc)
    ELSE IF exc \in {"ConnectError", "RequestError"}
    THEN Backoff(s, c, exc)
    ELSE Finish(s, c, "exc", exc)

\* request_with_retry, lines 198-222: the upstream answered
HandleResponse(s, c, out) ==
    LET n == Len(s.log[c])
        s1 == [s EXCEPT !.log[c][n].out = out]
        \* client.send(req, stream=True) hands back a response with its body open
        s2 == [s1 EXCEPT !.open[c] = IF s.stream[c] THEN @ + 1 ELSE @]
    IN  CASE out = "200" -> Finish(s2, c, "response", "200")
          [] out = "403" -> Acquire(s2, c, "force")
          [] out \in {"429", "5xx"} -> Backoff(s2, c, out)
          [] out = "other" -> Finish(s2, c, "response", "other")
          [] out = "timeout" -> HandleException(s1, c, "TimeoutException")
          [] out = "neterr" -> HandleException(s1, c, "RequestError")

\* mutant: the wait grows linearly with the attempt
RefreshDelayLinear(k) == REFRESH_BASE_DELAY * (k + 1)

\* _execute_refresh_request, lines 424 and 435: delay = base_delay * (2 ** attempt)
RefreshDelay(k) == REFRESH_BASE_DELAY * 2 ^ k

\* _execute_refresh_request, lines 416-441: the refresh endpoint answered
HandleRefresh(s, c, r, e, rot) ==
    LET s0 == [s EXCEPT !.rlast[c] = [out |-> r, delay |-> 0],
                        !.posts[Len(s.posts)].got =
                            IF rot THEN s.issued + 2 ELSE NoToken]
        wait == [s0 EXCEPT !.pc[c] = "refresh_sleep",
                           !.rlast[c].delay = RefreshDelay(s.rattempt[c])]
    IN
    CASE r = "ok" ->
            process_refresh_response(
                [s0 EXCEPT !.issued = @ + 1], c,
                [accessToken |-> s.issued + 2,
                 refreshToken |-> IF rot THEN s.issued + 2 ELSE NoToken,
                 expiresIn |-> e, profileArn |-> IF rot THEN "arn2" ELSE ""])
      [] r = "no_access_token" ->
            process_refresh_response(
                s0, c, [accessToken |-> NoToken,
                        refreshToken |-> IF rot THEN s.issued + 2 ELSE NoToken,
                        expiresIn |-> e, profileArn |-> IF rot THEN "arn2" ELSE ""])
      [] r = "retry_status" -> [wait EXCEPT !.last_error[c] = "HTTPStatusError"]
      [] r \in {"ConnectError", "TimeoutException"} ->
            [wait EXCEPT !.last_error[c] = r]
      [] r = "fatal_status" -> RaiseFromAuth(s0, c, "HTTPStatusError")
      [] r = "RequestError" -> RaiseFromAuth(s0, c, "RequestError")

\* _execute_refresh_request, after `await asyncio.sleep(delay)`: next attempt, or
\* `raise last_error` after the last one
AfterRefreshSleep(s, c) ==
    IF s.rattempt[c] + 1 < REFRESH_MAX_RETRIES
    THEN PostRefresh(s, c, s.rattempt[c] + 1)
    ELSE RaiseFromAuth(s, c, s.last_error[c])

\* a task starts a call
Begin(s, c, o, st) ==
    [s EXCEPT !.pc[c] = "running", !.op[c] = o, !.stream[c] = st, !.attempt[c] = 0,
              !.rattempt[c] = 0, !.last_error[c] = "", !.rlast[c] = NoPost,
              !.res[c] = NoRes,
              !.log[c] = <<>>, !.lastGet[c] = NoGet, !.lastForce[c] = NoForce,
              !.open[c] = 0, !.noTok[c] = 0, !.ends[c] = <<>>, !.queued[c] = FALSE,
              !.calls = @ + 1]

----------------------------------------------------------------------------
(* Actions *)

\* a manager after construction, no call started
AuthInit ==
    /\ access_token \in {NoToken, 1}
    /\ expires_at \in {NoExpiry, 300, 900}
    /\ access_token = NoToken => expires_at = NoExpiry
    /\ refresh_token \in {NoToken, 1}
    /\ lock = Free
    /\ waiters = <<>>
    /\ now = 0
    /\ issued = 0
    /\ pc = [c \in Tasks |-> "idle"]
    /\ op = [c \in Tasks |-> "none"]
    /\ inner = [c \in Tasks |-> "none"]
    /\ stream = [c \in Tasks |-> FALSE]
    /\ attempt = [c \in Tasks |-> 0]
    /\ rattempt = [c \in Tasks |-> 0]
    /\ last_error = [c \in Tasks |-> ""]
    /\ rlast = [c \in Tasks |-> NoPost]
    /\ res = [c \in Tasks |-> NoRes]
    /\ log = [c \in Tasks |-> <<>>]
    /\ lastGet = [c \in Tasks |-> NoGet]
    /\ lastForce = [c \in Tasks |-> NoForce]
    /\ open = [c \in Tasks |-> 0]
    /\ noTok = [c \in Tasks |-> 0]
    /\ ends = [c \in Tasks |-> <<>>]
    /\ queued = [c \in Tasks |-> FALSE]
    /\ posts = <<>>
    /\ httpCalls = 0
    /\ expiredSeen = 0
    /\ forceSeen = 0
    /\ calls = 0

\* no request is being translated
ConvIdle ==
    /\ messages = <<>>
    /\ sent = <<>>
    /\ merged = <<>>
    /\ payload = NoPayload
    /\ previous = NoPayload
    /\ cpc = "idle"

\* a parser after construction, nothing fed
ParserIdle ==
    /\ chunks = <<>>
    /\ nfed = 0
    /\ buffer = <<>>
    /\ last_content = NoContent
    /\ current_tool_call = NoCall
    /\ tool_calls = <<>>
    /\ events = <<>>
    /\ frames = <<>>

\* a manager without a credentials file, no refresh response being processed
SaveIdle ==
    /\ has_file = FALSE
    /\ creds = NoFile
    /\ creds_before = NoFile
    /\ profile_arn = ""
    /\ response_data = <<>>
    /\ rpc = 0
    /\ wpc = "none"
    /\ existing_data = <<>>
    /\ crashed = FALSE

\* a manager loaded from its credentials file, no refresh response being
\* processed statement by statement
SaveLoaded ==
    /\ has_file = TRUE
    /\ creds = OldFile
    /\ creds_before = NoFile
    /\ profile_arn = "arn1"
    /\ response_data = <<>>
    /\ rpc = 0
    /\ wpc = "none"
    /\ existing_data = <<>>
    /\ crashed = FALSE

\* an AuthCache after construction
CacheIdle ==
    /\ cache = <<>>
    /\ built = 0
    /\ touched = [k \in CacheKeys |-> 0]
    /\ nops = 0
    /\ cache_op = <<>>

\* no response is being streamed
StreamIdle ==
    /\ dialect = "none"
    /\ upstream = <<>>
    /\ sse = <<>>
    /\ block_index = -1
    /\ block_kind = "none"
    /\ spc = "idle"

\* a GlobalHTTPClientManager after construction
PoolIdle ==
    /\ http_client = NoClient
    /\ closed_clients = {}
    /\ pool_lock = Free
    /\ pool_waiters = <<>>
    /\ gpc = [c \in Callers |-> "idle"]
    /\ received = [c \in Callers |-> NoClient]
    /\ handed = <<>>
    /\ nclients = 0
    /\ nclosed = 0
    /\ pool_ops = 0

\* no function of the parsers is being applied
FunIdle ==
    /\ arg = <<>>
    /\ ret = <<>>
    /\ fpc = "idle"

CanCall(c) == pc[c] \in {"idle", "done"} /\ calls < MaxCalls

\* await auth_manager.get_access_token()
CallGet(c) ==
    /\ CanCall(c)
    /\ Commit(Acquire(Begin(S, c, "get", FALSE), c, "get"))

\* await auth_manager.force_refresh()
CallForce(c) ==
    /\ CanCall(c)
    /\ Commit(Acquire(Begin(S, c, "force", FALSE), c, "force"))

\* await http_client.request_with_retry(..., stream=st)
CallRequest(c) ==
    /\ pc[c] = "idle"
    /\ \E st \in BOOLEAN : Commit(LoopHead(Begin(S, c, "request", st), c))

\* the lock is free and task c is the first waiter
LockGranted(c) ==
    /\ pc[c] = "lock_wait"
    /\ lock = Free
    /\ waiters # <<>> /\ Head(waiters) = c
    /\ Commit(Locked([S EXCEPT !.lock = c, !.waiters = Tail(@)], c))

\* the refresh endpoint answers task c's POST
RefreshResponse(c) ==
    /\ pc[c] = "refresh_http"
    /\ \E r \in RefreshOutcomes, e \in ExpiresInValues, rot \in BOOLEAN :
          /\ r \notin {"ok", "no_access_token"} => (e = NoExpiresIn /\ ~rot)
          /\ r = "no_access_token" => e = NoExpiresIn
          /\ \E s \in {S} : Commit(HandleRefresh(s, c, r, e, rot))

\* the backoff sleep of _execute_refresh_request ends
RefreshSleepDone(c) ==
    /\ pc[c] = "refresh_sleep"
    /\ Commit(AfterRefreshSleep(S, c))

\* the upstream answers task c's request
UpstreamResponse(c) ==
    /\ pc[c] = "up_http"
    /\ \E out \in UpstreamOutcomes : Commit(HandleResponse(S, c, out))

\* the backoff sleep of request_with_retry ends
UpSleepDone(c) ==
    /\ pc[c] = "up_sleep"
    /\ Commit(NextAttempt(S, c))

\* time passes
Tick ==
    /\ now + TickStep <= MaxTime
    /\ Commit([S EXCEPT !.now = @ + TickStep])

\* a manager after construction, its credentials file on disk, no request being
\* translated
Init == AuthInit /\ ConvIdle /\ FunIdle /\ ParserIdle /\ SaveLoaded
        /\ CacheIdle /\ StreamIdle /\ PoolIdle

\* a manager no call runs on
Quiet == AuthInit /\ access_token = NoToken /\ refresh_token = NoToken

\* Concurrent callers of one manager
NextAuth ==
    \/ \E c \in Tasks : CallGet(c)
    \/ \E c \in Tasks : CallForce(c)
    \/ \E c \in Tasks : LockGranted(c)
    \/ \E c \in Tasks : RefreshResponse(c)
    \/ \E c \in Tasks : RefreshSleepDone(c)
    \/ Tick

SpecAuth == Init /\ [][NextAuth]_vars

\* One request_with_retry call on a manager
NextRetry ==
    \/ CallRequest("t1")
    \/ RefreshResponse("t1")
    \/ RefreshSleepDone("t1")
    \/ UpstreamResponse("t1")
    \/ UpSleepDone("t1")
    \/ Tick

SpecRetry == Init /\ [][NextRetry]_vars

\* What the network and the event loop owe the call: every POST and every request
\* is answered or times out (httpx.AsyncClient(timeout=30), httpx.Timeout(timeout)),
\* and every asyncio.sleep ends
RetryFairness ==
    /\ WF_vars(RefreshResponse("t1"))
    /\ WF_vars(RefreshSleepDone("t1"))
    /\ WF_vars(UpstreamResponse("t1"))
    /\ WF_vars(UpSleepDone("t1"))

\* One request_with_retry call, the clock standing still: whether a token is
\* expiring is settled by Init and by the expiresIn of the refreshes
NextRetryFair ==
    \/ CallRequest("t1")
    \/ RefreshResponse("t1")
    \/ RefreshSleepDone("t1")
    \/ UpstreamResponse("t1")
    \/ UpSleepDone("t1")

SpecRetryFair == Init /\ [][NextRetryFair]_vars /\ RetryFairness

----------------------------------------------------------------------------
(* _process_refresh_response and _save_credentials_to_file, statement by       *)
(* statement.  The file is absent, holds a JSON object, or is "truncated":     *)
(* open(path, 'w') has emptied it and json.dump has not yet written the object. *)
(* A JSON object of the file has the four keys the manager writes and one key   *)
(* it does not (region); NoToken, NoIso and "" stand for a key that is absent.  *)

taskVars == <<lock, waiters, now, issued, pc, op, inner, stream, attempt, rattempt,
              last_error, rlast, res, log, lastGet, lastForce, open, noTok, ends,
              queued, posts, httpCalls, expiredSeen, forceSeen, calls>>

Truncated == [kind |-> "truncated", json |-> <<>>]

\* mutant: the in-memory fields are assigned before the file is saved
ResponseStepsMemoryFirst == <<"check", "new_expires_at", "access_token", "refresh_token",
                              "profile_arn", "expires_at", "save", "log">>

\* the statements of _process_refresh_response after it has read data
ResponseSteps == <<"check", "new_expires_at", "save", "access_token", "refresh_token",
                   "profile_arn", "expires_at", "log">>

Returned == Len(ResponseSteps) + 1

\* expires_in = data.get("expiresIn", 3600); now + expires_in - 60
NewExpiresAt(d) ==
    now + (IF d.expiresIn = NoExpiresIn THEN DEFAULT_EXPIRES_IN ELSE d.expiresIn)
        - EXPIRY_BUFFER

\* the manager's fields, the file and the two functions' positions as a record
M == [access_token |-> access_token, refresh_token |-> refresh_token,
      expires_at |-> expires_at, profile_arn |-> profile_arn, creds |-> creds,
      creds_before |-> creds_before, rpc |-> rpc, wpc |-> wpc,
      existing_data |-> existing_data, crashed |-> crashed]

SetM(m) ==
    /\ access_token' = m.access_token
    /\ refresh_token' = m.refresh_token
    /\ expires_at' = m.expires_at
    /\ profile_arn' = m.profile_arn
    /\ creds' = m.creds
    /\ creds_before' = m.creds_before
    /\ rpc' = m.rpc
    /\ wpc' = m.wpc
    /\ existing_data' = m.existing_data
    /\ crashed' = m.crashed
    /\ UNCHANGED <<has_file, response_data, taskVars, convVars, funVars, parserVars,
                   cacheVars, streamVars, poolVars>>

\* _process_refresh_response is at the statement named
At(name) ==
    /\ ~crashed
    /\ rpc \in 1..Len(ResponseSteps)
    /\ ResponseSteps[rpc] = name

\* if not new_access_token: raise ValueError (rpc = 0: raised)
CheckAccessToken ==
    /\ At("check")
    /\ SetM([M EXCEPT !.rpc = IF response_data.accessToken = NoToken THEN 0 ELSE rpc + 1])

\* new_expires_at = ...
ComputeExpiry ==
    /\ At("new_expires_at")
    /\ SetM([M EXCEPT !.rpc = rpc + 1])

\* self._save_credentials_to_file(...) is called: if not self._creds_file: return
SaveCall ==
    /\ At("save") /\ wpc = "none"
    /\ SetM(IF has_file
            THEN [M EXCEPT !.wpc = "read", !.creds_before = creds]
            ELSE [M EXCEPT !.wpc = "returned", !.rpc = rpc + 1])

\* except Exception: logger.error(...), and _save_credentials_to_file returns
SaveFailed(m) == [m EXCEPT !.wpc = "failed", !.rpc = rpc + 1]

\* if path.exists(): existing_data = json.load(f); open or json.load may raise
SaveRead ==
    /\ At("save") /\ wpc = "read"
    /\ \/ /\ creds.kind = "absent"
          /\ SetM([M EXCEPT !.existing_data = EmptyData, !.wpc = "update"])
       \/ /\ creds.kind = "json"
          /\ SetM([M EXCEPT !.existing_data = creds.json, !.wpc = "update"])
       \/ /\ creds.kind # "absent"
          /\ SetM(SaveFailed(M))

\* existing_data['accessToken'] = ... and the three assignments after it
SaveUpdate ==
    /\ At("save") /\ wpc = "update"
    /\ SetM([M EXCEPT
          !.existing_data = UpdatedData(existing_data, response_data, refresh_token,
                                        expires_at, profile_arn),
          !.wpc = "open"])

\* open(path, 'w') empties the file, or raises and leaves it
SaveOpen ==
    /\ At("save") /\ wpc = "open"
    /\ \/ SetM([M EXCEPT !.creds = Truncated, !.wpc = "dump"])
       \/ SetM(SaveFailed(M))

\* json.dump(existing_data, f) and the close of the file, or an error in them
SaveDump ==
    /\ At("save") /\ wpc = "dump"
    /\ \/ SetM([M EXCEPT !.creds = JsonFile(existing_data), !.wpc = "returned",
                         !.rpc = rpc + 1])
       \/ SetM(SaveFailed(M))

\* self._access_token = new_access_token
SetAccessToken ==
    /\ At("access_token")
    /\ SetM([M EXCEPT !.access_token = response_data.accessToken, !.rpc = rpc + 1])

\* if new_refresh_token: self._refresh_token = new_refresh_token
SetRefreshToken ==
    /\ At("refresh_token")
    /\ SetM([M EXCEPT !.refresh_token = IF response_data.refreshToken # NoToken
                                        THEN response_data.refreshToken ELSE @,
                      !.rpc = rpc + 1])

\* if new_profile_arn: self._profile_arn = new_profile_arn
SetProfileArn ==
    /\ At("profile_arn")
    /\ SetM([M EXCEPT !.profile_arn = IF response_data.profileArn # ""
                                      THEN response_data.profileArn ELSE @,
                      !.rpc = rpc + 1])

\* self._expires_at = new_expires_at
SetExpiresAt ==
    /\ At("expires_at")
    /\ SetM([M EXCEPT !.expires_at = NewExpiresAt(response_data), !.rpc = rpc + 1])

\* logger.info(...), and _process_refresh_response returns
LogSuccess ==
    /\ At("log")
    /\ SetM([M EXCEPT !.rpc = rpc + 1])

\* the process is killed while _process_refresh_response runs
Crash ==
    /\ ~crashed
    /\ rpc \in 1..Len(ResponseSteps)
    /\ SetM([M EXCEPT !.crashed = TRUE])

\* the refresh endpoint's 200 responses
Responses ==
    [accessToken : {NoToken, 2}, refreshToken : {NoToken, 2},
     expiresIn : ExpiresInValues, profileArn : {"", "arn2"}]

\* a manager that holds a refresh token is given the response of its refresh
SaveInit ==
    /\ AuthInit
    /\ refresh_token # NoToken
    /\ has_file \in BOOLEAN
    /\ creds \in IF has_file THEN {NoFile, OldFile} ELSE {NoFile}
    /\ creds_before = NoFile
    /\ profile_arn \in {"", "arn1"}
    /\ response_data \in Responses
    /\ rpc = 1
    /\ wpc = "none"
    /\ existing_data = <<>>
    /\ crashed = FALSE

InitSave == SaveInit /\ ConvIdle /\ FunIdle /\ ParserIdle
            /\ CacheIdle /\ StreamIdle /\ PoolIdle

NextSave ==
    \/ CheckAccessToken
    \/ ComputeExpiry
    \/ SaveCall
    \/ SaveRead
    \/ SaveUpdate
    \/ SaveOpen
    \/ SaveDump
    \/ SetAccessToken
    \/ SetRefreshToken
    \/ SetProfileArn
    \/ SetExpiresAt
    \/ LogSuccess
    \/ Crash

SpecSave == InitSave /\ [][NextSave]_vars

----------------------------------------------------------------------------
(* Request translator: kiro_gateway/converters.py *)
(* A str is a sequence of text tokens, "" the empty sequence.  A message's      *)
(* content is None, a str or a list of blocks; tool_calls = None and            *)
(* tool_calls = [] are both the empty sequence (the code tests truthiness).     *)
(* src is the place of the message object in the request (0: an object made by  *)
(* the translator): the translator assigns to fields of the objects it is given. *)

NoneContent == [k |-> "none", s |-> <<>>, l |-> <<>>]
StrContent(s) == [k |-> "str", s |-> s, l |-> <<>>]
ListContent(l) == [k |-> "list", s |-> <<>>, l |-> l]

\* {"type": "text", "text": t}
TextBlock(t) == [type |-> "text", text |-> t, id |-> "", name |-> "", input |-> {}]

\* {"type": "tool_result", "tool_use_id": id, "content": t}
ToolResultBlock(id, t) ==
    [type |-> "tool_result", text |-> t, id |-> id, name |-> "", input |-> {}]

\* a tool call {"id": id, "function": {"name": name, "arguments": args}}
ToolCall(id, name, args) == [id |-> id, name |-> name, arguments |-> args]

Message(role, content, tcs, tool_call_id) ==
    [role |-> role, content |-> content, tool_calls |-> tcs,
     tool_call_id |-> tool_call_id, src |-> 0]

\* json.loads on the argument strings of the model
json_loads(a) ==
    CASE a = "{}" -> {}
      [] a = "{\"a\": 1}" -> {<<"a", 1>>}

RECURSIVE TextOfBlocks(_)
TextOfBlocks(l) ==
    IF l = <<>> THEN <<>>
    ELSE (IF Head(l).type = "text" THEN Head(l).text ELSE <<>>) \o TextOfBlocks(Tail(l))

\* extract_text_content
extract_text_content(content) ==
    CASE content.k = "none" -> <<>>
      [] content.k = "str" -> content.s
      [] content.k = "list" -> TextOfBlocks(content.l)

\* merge_adjacent_messages, lines 136-139 and 148-151
ToolResultsMsg(pending) == Message("user", ListContent(pending), <<>>, "")

\* merge_adjacent_messages, lines 119-153: tool messages become user messages
RECURSIVE CollectToolResults(_, _, _)
CollectToolResults(msgs, processed, pending) ==
    IF msgs = <<>>
    THEN IF pending # <<>> THEN Append(processed, ToolResultsMsg(pending))
         ELSE processed
    ELSE LET msg == Head(msgs)
             text == extract_text_content(msg.content)
         IN  IF msg.role = "tool"
             THEN CollectToolResults(
                    Tail(msgs), processed,
                    Append(pending,
                           ToolResultBlock(msg.tool_call_id,
                                           IF text # <<>> THEN text
                                           ELSE <<"(empty result)">>)))
             ELSE CollectToolResults(
                    Tail(msgs),
                    IF pending # <<>>
                    THEN processed \o <<ToolResultsMsg(pending), msg>>
                    ELSE Append(processed, msg),
                    <<>>)

\* merge_adjacent_messages, lines 166-175
MergeContent(last, cur) ==
    IF last.k = "list" /\ cur.k = "list"
    THEN ListContent(last.l \o cur.l)
    ELSE IF last.k = "list"
    THEN ListContent(Append(last.l, TextBlock(extract_text_content(cur))))
    ELSE IF cur.k = "list"
    THEN ListContent(<<TextBlock(extract_text_content(last))>> \o cur.l)
    ELSE StrContent(extract_text_content(last) \o <<"\n">> \o extract_text_content(cur))

\* mutant: the role is compared with the first merged message, not the last
MergeStepFirst(acc, msg) ==
    IF acc = <<>>
    THEN <<msg>>
    ELSE IF msg.role = acc[1].role
         THEN [acc EXCEPT ![Len(acc)].content = MergeContent(@, msg.content)]
         ELSE Append(acc, msg)

\* merge_adjacent_messages, lines 157-188: one iteration of the merge loop
MergeStep(acc, msg) ==
    IF acc = <<>>
    THEN <<msg>>
    ELSE LET n == Len(acc)
             last == acc[n]
         IN  IF msg.role = last.role
             THEN [acc EXCEPT ![n] =
                    [last EXCEPT
                        !.content = MergeContent(last.content, msg.content),
                        !.tool_calls =
                            IF msg.role = "assistant" /\ msg.tool_calls # <<>>
                            THEN last.tool_calls \o msg.tool_calls
                            ELSE @]]
             ELSE Append(acc, msg)

RECURSIVE MergeAll(_, _)
MergeAll(processed, acc) ==
    IF processed = <<>> THEN acc
    ELSE MergeAll(Tail(processed), MergeStep(acc, Head(processed)))

\* merge_adjacent_messages
merge_adjacent_messages(msgs) ==
    IF msgs = <<>> THEN <<>>
    ELSE MergeAll(CollectToolResults(msgs, <<>>, <<>>), <<>>)

\* the request's message objects after the translator assigned to the objects objs
WriteBack(msgs, objs) ==
    [i \in 1..Len(msgs) |->
        IF \E j \in 1..Len(objs) : objs[j].src = i
        THEN objs[CHOOSE j \in 1..Len(objs) : objs[j].src = i]
        ELSE msgs[i]]

\* _extract_tool_results
RECURSIVE ToolResultsOf(_)
ToolResultsOf(l) ==
    IF l = <<>> THEN <<>>
    ELSE (IF Head(l).type = "tool_result"
          THEN <<[text |-> Head(l).text, status |-> "success", toolUseId |-> Head(l).id]>>
          ELSE <<>>) \o ToolResultsOf(Tail(l))

extract_tool_results(content) ==
    IF content.k = "list" THEN ToolResultsOf(content.l) ELSE <<>>

\* _extract_tool_uses
RECURSIVE ToolUsesOfCalls(_)
ToolUsesOfCalls(tcs) ==
    IF tcs = <<>> THEN <<>>
    ELSE <<[name |-> Head(tcs).name, input |-> json_loads(Head(tcs).arguments),
            toolUseId |-> Head(tcs).id]>> \o ToolUsesOfCalls(Tail(tcs))

RECURSIVE ToolUsesOfBlocks(_)
ToolUsesOfBlocks(l) ==
    IF l = <<>> THEN <<>>
    ELSE (IF Head(l).type = "tool_use"
          THEN <<[name |-> Head(l).name, input |-> Head(l).input,
                  toolUseId |-> Head(l).id]>>
          ELSE <<>>) \o ToolUsesOfBlocks(Tail(l))

extract_tool_uses(msg) ==
    ToolUsesOfCalls(msg.tool_calls)
        \o (IF msg.content.k = "list" THEN ToolUsesOfBlocks(msg.content.l) ELSE <<>>)

\* a turn of conversationState.history; an absent toolResults / toolUses key is
\* the empty sequence
Turn(kind, content, toolResults, toolUses) ==
    [kind |-> kind, content |-> content, toolResults |-> toolResults,
     toolUses |-> toolUses]

\* build_kiro_history
RECURSIVE build_kiro_history(_)
build_kiro_history(msgs) ==
    IF msgs = <<>> THEN <<>>
    ELSE LET msg == Head(msgs)
             content == extract_text_content(msg.content)
         IN  (CASE msg.role = "user" ->
                    <<Turn("userInputMessage", content,
                           extract_tool_results(msg.content), <<>>)>>
                [] msg.role = "assistant" ->
                    <<Turn("assistantResponseMessage", content, <<>>,
                           extract_tool_uses(msg))>>
                [] OTHER -> <<>>)
             \o build_kiro_history(Tail(msgs))

IsWhitespace(tok) == tok \in {"\n", "\n\n", " "}

\* str.strip
RECURSIVE LStrip(_)
LStrip(s) == IF s # <<>> /\ IsWhitespace(Head(s)) THEN LStrip(Tail(s)) ELSE s

RECURSIVE RStrip(_)
RStrip(s) ==
    IF s # <<>> /\ IsWhitespace(s[Len(s)]) THEN RStrip(SubSeq(s, 1, Len(s) - 1)) ELSE s

\* _extract_system_and_tool_docs, lines 413-420: the system prompt
RECURSIVE SystemText(_)
SystemText(msgs) ==
    IF msgs = <<>> THEN <<>>
    ELSE (IF Head(msgs).role = "system"
          THEN extract_text_content(Head(msgs).content) \o <<"\n">>
          ELSE <<>>) \o SystemText(Tail(msgs))

IsNotSystem(m) == m.role # "system"

\* the current content is kept whatever the message
KeepContent(is_assistant, content) == content

\* build_kiro_payload, lines 495-505: the content of currentMessage
SubstituteContinue(is_assistant, content) ==
    IF is_assistant THEN <<"Continue">>
    ELSE IF content = <<>> THEN <<"Continue">>
    ELSE content

\* build_kiro_payload: the payload (ok = FALSE: ValueError) and, in objs, the
\* message objects it worked on, as it left them
build_kiro_payload(msgs) ==
    LET system_prompt == RStrip(LStrip(SystemText(msgs)))
        merged_messages == merge_adjacent_messages(SelectSeq(msgs, IsNotSystem))
        n == Len(merged_messages)
    IN  IF merged_messages = <<>>
        THEN [ok |-> FALSE, history |-> <<>>, content |-> <<>>,
              toolResults |-> <<>>, objs |-> <<>>]
        ELSE
        LET hm == IF n > 1 THEN SubSeq(merged_messages, 1, n - 1) ELSE <<>>
            history_messages ==
                IF system_prompt # <<>> /\ hm # <<>> /\ hm[1].role = "user"
                THEN [hm EXCEPT ![1].content =
                        StrContent(system_prompt \o <<"\n\n">>
                                   \o extract_text_content(hm[1].content))]
                ELSE hm
            history == build_kiro_history(history_messages)
            current_message == merged_messages[n]
            text == extract_text_content(current_message.content)
            with_system == IF system_prompt # <<>> /\ history = <<>>
                           THEN system_prompt \o <<"\n\n">> \o text
                           ELSE text
            is_assistant == current_message.role = "assistant"
            current_content == SubstituteContinue(is_assistant, with_system)
        IN  [ok |-> TRUE,
             history |-> IF is_assistant
                         THEN Append(history,
                                     Turn("assistantResponseMessage", with_system,
                                          <<>>, <<>>))
                         ELSE history,
             content |-> current_content,
             toolResults |-> extract_tool_results(current_message.content),
             objs |-> Append(history_messages, current_message)]

\* the messages a client may send
ToolCallA == ToolCall("A", "f", "{}")
ToolCallB == ToolCall("B", "g", "{\"a\": 1}")

InputMessages ==
    { Message("user", StrContent(<<"a">>), <<>>, ""),
      Message("user", ListContent(<<TextBlock(<<"b">>)>>), <<>>, ""),
      Message("user", ListContent(<<ToolResultBlock("A", <<"r">>)>>), <<>>, ""),
      Message("assistant", StrContent(<<"c">>), <<>>, ""),
      Message("assistant", NoneContent, <<ToolCallA>>, ""),
      Message("assistant", StrContent(<<"e">>), <<ToolCallB>>, ""),
      Message("tool", StrContent(<<"r">>), <<>>, "A"),
      Message("tool", NoneContent, <<>>, "B"),
      Message("system", StrContent(<<"s">>), <<>>, ""),
      Message("developer", StrContent(<<"d">>), <<>>, "") }

\* a request arrives
ConvInit ==
    /\ \E n \in 0..MaxMsgs : \E f \in [1..n -> InputMessages] :
          messages = [i \in 1..n |-> [f[i] EXCEPT !.src = i]]
    /\ sent = messages
    /\ merged = <<>>
    /\ payload = NoPayload
    /\ previous = NoPayload
    /\ cpc = "input"

\* merge_adjacent_messages(messages)
Merge ==
    /\ cpc = "input"
    /\ merged' = merge_adjacent_messages(messages)
    /\ messages' = WriteBack(messages, merged')
    /\ cpc' = "merged"
    /\ UNCHANGED <<sent, payload, previous>>
    /\ UNCHANGED nonConvVars

\* build_kiro_payload(request_data, ...); the request schema wants a message
Build ==
    /\ cpc = "input"
    /\ Len(messages) >= 1
    /\ LET p == build_kiro_payload(messages)
       IN  /\ payload' = [ok |-> p.ok, history |-> p.history, content |-> p.content,
                          toolResults |-> p.toolResults]
           /\ messages' = WriteBack(messages, p.objs)
           /\ cpc' = IF p.ok THEN "built" ELSE "rejected"
    /\ UNCHANGED <<sent, merged, previous>>
    /\ UNCHANGED nonConvVars

\* build_kiro_payload is called once more with the same request object
BuildAgain ==
    /\ cpc = "built"
    /\ LET p == build_kiro_payload(messages)
       IN  /\ payload' = [ok |-> p.ok, history |-> p.history, content |-> p.content,
                          toolResults |-> p.toolResults]
           /\ messages' = WriteBack(messages, p.objs)
    /\ previous' = payload
    /\ cpc' = "rebuilt"
    /\ UNCHANGED <<sent, merged>>
    /\ UNCHANGED nonConvVars

NextConv == Merge \/ Build \/ BuildAgain

\* a request arrives at a manager no call runs on
InitConv == AuthInit /\ access_token = NoToken /\ refresh_token = NoToken /\ ConvInit
            /\ CacheIdle /\ StreamIdle /\ PoolIdle
            /\ FunIdle /\ ParserIdle /\ SaveIdle

SpecConv == InitConv /\ [][NextConv]_vars

(* Anthropic messages.  An Anthropic message is [role, content], its content a   *)
(* str or a list of text, tool_use and tool_result blocks; the content of a      *)
(* tool_result block is a str.                                                    *)

\* {"type": "tool_use", "id": id, "name": name, "input": input}
ToolUseBlock(id, name, input) ==
    [type |-> "tool_use", text |-> <<>>, id |-> id, name |-> name, input |-> input]

\* json.dumps on the inputs of the model
json_dumps(input) ==
    CASE input = {} -> "{}"
      [] input = {<<"a", 1>>} -> "{\"a\": 1}"

\* "\n".join(text_parts)
RECURSIVE JoinLines(_)
JoinLines(parts) ==
    IF parts = <<>> THEN <<>>
    ELSE IF Len(parts) = 1 THEN parts[1]
    ELSE parts[1] \o <<"\n">> \o JoinLines(Tail(parts))

\* _convert_anthropic_content_to_openai, lines 673-738: the loop over the blocks
RECURSIVE ConvertBlocks(_, _)
ConvertBlocks(blocks, acc) ==
    IF blocks = <<>> THEN acc
    ELSE LET block == Head(blocks)
         IN  ConvertBlocks(Tail(blocks),
                CASE block.type = "text" ->
                        [acc EXCEPT !.text_parts = Append(@, block.text)]
                  [] block.type = "tool_use" ->
                        [acc EXCEPT !.tool_calls =
                            Append(@, ToolCall(block.id, block.name,
                                               json_dumps(block.input)))]
                  [] block.type = "tool_result" ->
                        [acc EXCEPT !.tool_results =
                            Append(@, ToolResultBlock(block.id, block.text))]
                  [] OTHER -> acc)

\* _convert_anthropic_content_to_openai, lines 740-746: what is returned
ReturnConverted(parts) ==
    IF parts.tool_results # <<>>
    THEN [content |-> ListContent(parts.tool_results), tool_calls |-> <<>>]
    ELSE [content |-> IF parts.text_parts # <<>>
                      THEN StrContent(JoinLines(parts.text_parts))
                      ELSE NoneContent,
          tool_calls |-> parts.tool_calls]

\* _convert_anthropic_content_to_openai
convert_anthropic_content_to_openai(content) ==
    IF content.k = "str" THEN [content |-> content, tool_calls |-> <<>>]
    ELSE IF content.k # "list" THEN [content |-> NoneContent, tool_calls |-> <<>>]
    ELSE ReturnConverted(
            ConvertBlocks(content.l,
                          [text_parts |-> <<>>, tool_calls |-> <<>>,
                           tool_results |-> <<>>]))

\* content or ""
OrEmptyStr(content) ==
    IF content.k = "none" \/ (content.k = "str" /\ content.s = <<>>)
       \/ (content.k = "list" /\ content.l = <<>>)
    THEN StrContent(<<>>)
    ELSE content

\* convert_anthropic_messages_to_openai without a system prompt
RECURSIVE convert_anthropic_messages_to_openai(_)
convert_anthropic_messages_to_openai(msgs) ==
    IF msgs = <<>> THEN <<>>
    ELSE LET msg == Head(msgs)
             c == convert_anthropic_content_to_openai(msg.content)
         IN  <<IF c.content.k = "list" /\ c.content.l # <<>>
                  /\ c.content.l[1].type = "tool_result"
               THEN Message("user", c.content, <<>>, "")
               ELSE IF msg.role = "assistant"
               THEN Message("assistant", OrEmptyStr(c.content), c.tool_calls, "")
               ELSE Message("user", OrEmptyStr(c.content), <<>>, "")>>
             \o convert_anthropic_messages_to_openai(Tail(msgs))

\* the blocks and the messages a client may send
AnthropicBlocks ==
    { TextBlock(<<"t">>), TextBlock(<<"u">>),
      ToolUseBlock("A", "f", {}), ToolUseBlock("B", "g", {<<"a", 1>>}),
      ToolResultBlock("A", <<"r">>) }

AnthropicContents ==
    {StrContent(<<"t">>), StrContent(<<>>)}
        \cup {ListContent(l) : l \in UNION {[1..n -> AnthropicBlocks] : n \in 0..MaxList}}

\* convert_anthropic_messages_to_openai([message]) is called
AnthropicInit ==
    /\ \E role \in {"user", "assistant"} : \E content \in AnthropicContents :
          arg = <<[role |-> role, content |-> content]>>
    /\ ret = <<>>
    /\ fpc = "called"

\* convert_anthropic_messages_to_openai returns
ConvertAnthropic ==
    /\ fpc = "called"
    /\ ret' = <<convert_anthropic_messages_to_openai(arg)>>
    /\ fpc' = "returned"
    /\ UNCHANGED arg
    /\ UNCHANGED nonFunVars

InitAnthropic == Quiet /\ ConvIdle /\ ParserIdle /\ SaveIdle /\ AnthropicInit
                 /\ CacheIdle /\ StreamIdle /\ PoolIdle

NextAnthropic == ConvertAnthropic

SpecAnthropic == InitAnthropic /\ [][NextAnthropic]_vars

(* Tools with long descriptions.  A tool is [type, name, description, parameters]; *)
(* a description is a sequence of characters, None and '' both the empty one (the  *)
(* code reads description or "").  The fixed texts of the documentation are one    *)
(* token each, the whitespace at their ends a token of its own.                    *)

Tool(type, name, description) ==
    [type |-> type, name |-> name, description |-> description, parameters |-> "schema"]

\* f"## Tool: {tool_name}\n\n{description}"
ToolDoc(tool_name, description) == <<"## Tool: ", tool_name, "\n\n">> \o description

\* f"[Full documentation in system prompt under '## Tool: {tool_name}']"
ReferenceDescription(tool_name) ==
    <<"[Full documentation in system prompt under '", "## Tool: ", tool_name, "']">>

\* the copy of a tool with the reference description
ProcessedTool(tool) == [tool EXCEPT !.description = ReferenceDescription(tool.name)]

IsLong(tool, limit) == tool.type = "function" /\ Len(tool.description) > limit

\* the loop of process_tools_with_long_descriptions: the processed tools
RECURSIVE ProcessTools(_, _)
ProcessTools(tools, limit) ==
    IF tools = <<>> THEN <<>>
    ELSE <<IF IsLong(Head(tools), limit) THEN ProcessedTool(Head(tools)) ELSE Head(tools)>>
            \o ProcessTools(Tail(tools), limit)

\* "\n\n---\n\n".join(tool_documentation_parts)
RECURSIVE JoinDocs(_, _)
JoinDocs(tools, limit) ==
    LET long == SelectSeq(tools, LAMBDA tool : IsLong(tool, limit))
    IN  IF long = <<>> THEN <<>>
        ELSE ToolDoc(Head(long).name, Head(long).description)
                \o (IF Len(long) > 1
                    THEN <<"\n\n", "---", "\n\n">> \o JoinDocs(Tail(long), limit)
                    ELSE <<>>)

\* process_tools_with_long_descriptions; tools = <<>> in the result stands for None
process_tools_with_long_descriptions(tools, limit) ==
    IF tools = <<>> THEN [tools |-> <<>>, documentation |-> <<>>]
    ELSE IF limit <= 0 THEN [tools |-> tools, documentation |-> <<>>]
    ELSE [tools |-> ProcessTools(tools, limit),
          documentation |->
              IF JoinDocs(tools, limit) = <<>> THEN <<>>
              ELSE <<"\n\n", "---", "\n", "# Tool Documentation", "\n",
                     "The following tools have detailed documentation that couldn't fit in the tool definition.",
                     "\n\n">> \o JoinDocs(tools, limit)]

\* _extract_system_and_tool_docs: the system prompt and the processed tools
extract_system_and_tool_docs(msgs, tools, limit) ==
    LET processed == process_tools_with_long_descriptions(tools, limit)
        system_prompt == RStrip(LStrip(SystemText(msgs)))
    IN  [system_prompt |->
             IF processed.documentation = <<>> THEN system_prompt
             ELSE IF system_prompt # <<>> THEN system_prompt \o processed.documentation
             ELSE RStrip(LStrip(processed.documentation)),
         processed_tools |-> processed.tools]

\* _build_user_input_context, lines 564-579: the tools of the payload
RECURSIVE BuildTools(_)
BuildTools(tools_to_use) ==
    IF tools_to_use = <<>> THEN <<>>
    ELSE (IF Head(tools_to_use).type = "function"
          THEN <<[name |-> Head(tools_to_use).name,
                  description |-> Head(tools_to_use).description,
                  inputSchema |-> Head(tools_to_use).parameters]>>
          ELSE <<>>) \o BuildTools(Tail(tools_to_use))

\* the tools a client may send: two types, descriptions absent, of the length of
\* the limit, longer, and longer with whitespace at the end
Descriptions == { <<>>, <<"d", "d">>, <<"d", "d", "d">>, <<"d", "d", " ">> }

RequestTools ==
    {Tool(type, name, d) : type \in {"function", "retrieval"}, name \in {"f", "g"},
                           d \in Descriptions}

\* build_kiro_payload is called with tools, with or without a system message,
\* under a limit of 0 (off) or 2
ToolsInit ==
    /\ \E n \in 0..MaxTools : \E tools \in [1..n -> RequestTools] :
       \E msgs \in { <<Message("user", StrContent(<<"a">>), <<>>, "")>>,
                     <<Message("system", StrContent(<<"s">>), <<>>, ""),
                       Message("user", StrContent(<<"a">>), <<>>, "")>> } :
       \E limit \in {0, 2} :
          arg = [messages |-> msgs, tools |-> tools, limit |-> limit]
    /\ ret = <<>>
    /\ fpc = "called"

\* build_kiro_payload, as far as the tools and the system prompt go
BuildWithTools ==
    /\ fpc = "called"
    /\ LET e == extract_system_and_tool_docs(arg.messages, arg.tools, arg.limit)
       IN  ret' = [system_prompt |-> e.system_prompt,
                   tools |-> BuildTools(e.processed_tools)]
    /\ fpc' = "returned"
    /\ UNCHANGED arg
    /\ UNCHANGED nonFunVars

InitTools == Quiet /\ ConvIdle /\ ParserIdle /\ SaveIdle /\ ToolsInit
             /\ CacheIdle /\ StreamIdle /\ PoolIdle

NextTools == BuildWithTools

SpecTools == InitTools /\ [][NextTools]_vars

----------------------------------------------------------------------------
(* Event stream parser: kiro_gateway/parsers.py *)
(* A str is a sequence of characters; positions are counted from 0 as in the   *)
(* code, so text[i] of the code is text[i + 1] here.                            *)

LB == "{"
RB == "}"
QT == "\""
BS == "\\"

\* the characters of the texts the scanner is applied to
BraceChars == {LB, RB, QT, BS, "a"}

\* find_matching_brace, lines 66-87: the loop from position i on
RECURSIVE ScanBrace(_, _, _, _, _)
ScanBrace(text, i, brace_count, in_string, escape_next) ==
    IF i >= Len(text) THEN -1
    ELSE LET char == text[i + 1]
         IN  IF escape_next
             THEN ScanBrace(text, i + 1, brace_count, in_string, FALSE)
             ELSE IF char = BS /\ in_string
             THEN ScanBrace(text, i + 1, brace_count, in_string, TRUE)
             ELSE IF char = QT
             THEN ScanBrace(text, i + 1, brace_count, ~in_string, FALSE)
             ELSE IF ~in_string /\ char = LB
             THEN ScanBrace(text, i + 1, brace_count + 1, in_string, FALSE)
             ELSE IF ~in_string /\ char = RB
             THEN IF brace_count - 1 = 0 THEN i
                  ELSE ScanBrace(text, i + 1, brace_count - 1, in_string, FALSE)
             ELSE ScanBrace(text, i + 1, brace_count, in_string, FALSE)

\* mutant: a backslash inside a string escapes nothing
find_matching_brace_no_escape(text, start_pos) ==
    IF start_pos >= Len(text) \/ text[start_pos + 1] # LB
    THEN -1
    ELSE ScanBrace(SubSeq(text, 1, start_pos)
                     \o [i \in 1..(Len(text) - start_pos) |->
                            IF text[start_pos + i] = BS THEN "a"
                            ELSE text[start_pos + i]],
                   start_pos, 0, FALSE, FALSE)

\* find_matching_brace
find_matching_brace(text, start_pos) ==
    IF start_pos >= Len(text) \/ text[start_pos + 1] # LB
    THEN -1
    ELSE ScanBrace(text, start_pos, 0, FALSE, FALSE)

\* JSON values: a number (its digits in s), a string (its characters in s), or an
\* object (its members, key and value, in m)
JNum(s) == [t |-> "num", s |-> s, m |-> <<>>]
JStr(s) == [t |-> "str", s |-> s, m |-> <<>>]
JObj(m) == [t |-> "obj", s |-> <<>>, m |-> m]
JFail == [ok |-> FALSE, next |-> 0, val |-> JNum(<<>>)]

Digits == {"1", "5"}

\* json.loads: whitespace is skipped from position i (from 1) on
RECURSIVE SkipWs(_, _)
SkipWs(s, i) == IF i <= Len(s) /\ s[i] = " " THEN SkipWs(s, i + 1) ELSE i

\* json.loads: the digits of a number from position i on
RECURSIVE ParseDigits(_, _)
ParseDigits(s, i) ==
    IF i <= Len(s) /\ s[i] \in Digits THEN <<s[i]>> \o ParseDigits(s, i + 1) ELSE <<>>

\* json.loads: the characters of a string whose opening quote was read, from
\* position i on; only \" and \\ are escapes over the characters of the model
RECURSIVE ParseChars(_, _, _)
ParseChars(s, i, acc) ==
    IF i > Len(s) THEN JFail
    ELSE IF s[i] = QT THEN [ok |-> TRUE, next |-> i + 1, val |-> JStr(acc)]
    ELSE IF s[i] = BS
    THEN IF i + 1 <= Len(s) /\ s[i + 1] \in {QT, BS}
         THEN ParseChars(s, i + 2, Append(acc, s[i + 1]))
         ELSE JFail
    ELSE ParseChars(s, i + 1, Append(acc, s[i]))

\* dict[key] = val while an object is read: a key read again keeps its place and
\* takes the later value
SetMember(m, key, val) ==
    IF \E k \in 1..Len(m) : m[k].key = key
    THEN [k \in 1..Len(m) |-> IF m[k].key = key THEN [key |-> key, val |-> val] ELSE m[k]]
    ELSE Append(m, [key |-> key, val |-> val])

\* json.loads: one value from position i on (ParseValue), and the members of an
\* object from position j on, after the members acc already read (ParseMembers)
RECURSIVE ParseValue(_, _)
RECURSIVE ParseMembers(_, _, _)
ParseMembers(s, j, acc) ==
    IF j > Len(s) \/ s[j] # QT THEN JFail
    ELSE LET key == ParseChars(s, j + 1, <<>>)
             c == SkipWs(s, key.next)
         IN  IF ~key.ok \/ c > Len(s) \/ s[c] # ":" THEN JFail
             ELSE LET v == ParseValue(s, c + 1)
                      e == SkipWs(s, v.next)
                  IN  IF ~v.ok \/ e > Len(s) THEN JFail
                      ELSE IF s[e] = RB
                      THEN [ok |-> TRUE, next |-> e + 1,
                            val |-> JObj(SetMember(acc, key.val.s, v.val))]
                      ELSE IF s[e] = ","
                      THEN ParseMembers(s, SkipWs(s, e + 1),
                                        SetMember(acc, key.val.s, v.val))
                      ELSE JFail

ParseValue(s, i0) ==
    LET i == SkipWs(s, i0)
    IN  IF i > Len(s) THEN JFail
        ELSE IF s[i] \in Digits
        THEN LET d == ParseDigits(s, i)
             IN  [ok |-> TRUE, next |-> i + Len(d), val |-> JNum(d)]
        ELSE IF s[i] = QT THEN ParseChars(s, i + 1, <<>>)
        ELSE IF s[i] = LB
        THEN LET j == SkipWs(s, i + 1)
             IN  IF j <= Len(s) /\ s[j] = RB
                 THEN [ok |-> TRUE, next |-> j + 1, val |-> JObj(<<>>)]
                 ELSE ParseMembers(s, j, <<>>)
        ELSE JFail

\* json.loads(s): ok = FALSE stands for json.JSONDecodeError
loads(s) ==
    LET r == ParseValue(s, 1)
    IN  IF r.ok /\ SkipWs(s, r.next) = Len(s) + 1
        THEN [ok |-> TRUE, val |-> r.val]
        ELSE [ok |-> FALSE, val |-> JNum(<<>>)]

\* json.dumps: the characters of a string, escaped (ensure_ascii)
RECURSIVE DumpChars(_)
DumpChars(s) ==
    IF s = <<>> THEN <<>>
    ELSE (CASE Head(s) \in {QT, BS} -> <<BS, Head(s)>>
            [] Head(s) = "U+00E9" -> <<BS, "u", "0", "0", "e", "9">>
            [] OTHER -> <<Head(s)>>) \o DumpChars(Tail(s))

\* json.dumps(v), default separators (DumpMembers: the members from the k-th on)
RECURSIVE dumps(_)
RECURSIVE DumpMembers(_, _)
DumpMembers(m, k) ==
    IF k > Len(m) THEN <<>>
    ELSE (IF k > 1 THEN <<",", " ">> ELSE <<>>)
            \o <<QT>> \o DumpChars(m[k].key) \o <<QT, ":", " ">>
            \o dumps(m[k].val) \o DumpMembers(m, k + 1)

dumps(v) ==
    CASE v.t = "num" -> v.s
      [] v.t = "str" -> <<QT>> \o DumpChars(v.s) \o <<QT>>
      [] v.t = "obj" -> <<LB>> \o DumpMembers(v.m, 1) \o <<RB>>

\* dict.get(key, default) on a parsed object
Get(v, key, default) ==
    IF v.t = "obj" /\ \E k \in 1..Len(v.m) : v.m[k].key = key
    THEN v.m[CHOOSE k \in 1..Len(v.m) : v.m[k].key = key].val
    ELSE default

\* bool(v) of a parsed value: zero, the empty string and the empty object are false
Truthy(v) ==
    CASE v.t = "num" -> \E k \in 1..Len(v.s) : v.s[k] # "0"
      [] v.t = "str" -> v.s # <<>>
      [] v.t = "obj" -> v.m # <<>>

\* bytes: an ASCII byte is written as its character; xC3 xA9 is the UTF-8
\* encoding of the character U+00E9

\* chunk.decode('utf-8', errors='ignore'): a lead byte without its continuation
\* byte and a continuation byte without its lead byte are left out
RECURSIVE decode(_)
decode(bytes) ==
    IF bytes = <<>> THEN <<>>
    ELSE IF Head(bytes) = "xC3"
    THEN IF Len(bytes) >= 2 /\ bytes[2] = "xA9"
         THEN <<"U+00E9">> \o decode(SubSeq(bytes, 3, Len(bytes)))
         ELSE decode(Tail(bytes))
    ELSE IF Head(bytes) = "xA9" THEN decode(Tail(bytes))
    ELSE <<Head(bytes)>> \o decode(Tail(bytes))

\* AwsEventStreamParser.EVENT_PATTERNS; "c" is written for content, "n" for name,
\* "i" for input, "s" for stop, "f" for followupPrompt and "u" for usage
EVENT_PATTERNS ==
    << [pattern |-> <<LB, QT, "c", QT, ":">>, type |-> "content"],
       [pattern |-> <<LB, QT, "n", QT, ":">>, type |-> "tool_start"],
       [pattern |-> <<LB, QT, "i", QT, ":">>, type |-> "tool_input"],
       [pattern |-> <<LB, QT, "s", QT, ":">>, type |-> "tool_stop"],
       [pattern |-> <<LB, QT, "f", QT, ":">>, type |-> "followup"],
       [pattern |-> <<LB, QT, "u", QT, ":">>, type |-> "usage"] >>

\* str.find(pattern): the least position (from 0) where pattern starts, or -1
find(text, pattern) ==
    LET hits == {i \in 0..(Len(text) - Len(pattern)) :
                    SubSeq(text, i + 1, i + Len(pattern)) = pattern}
    IN  IF hits = {} THEN -1 ELSE CHOOSE i \in hits : \A j \in hits : i <= j

\* the parser as a record
P == [buffer |-> buffer, last_content |-> last_content,
      current_tool_call |-> current_tool_call, tool_calls |-> tool_calls,
      events |-> events, frames |-> frames]

\* _process_content_event
process_content_event(p, data) ==
    LET content == Get(data, <<"c">>, JStr(<<>>))
    IN  IF Truthy(Get(data, <<"f">>, JStr(<<>>))) THEN p
        ELSE IF content = p.last_content THEN p
        ELSE [p EXCEPT !.last_content = content,
                       !.events = Append(@, [type |-> "content", data |-> content,
                                             frame |-> Len(p.frames)])]

(* Tool-call assembly.  The data of a tool frame is the parsed object with its    *)
(* keys toolUseId, name, input and stop; an absent input is the default '' and an  *)
(* absent stop is FALSE.                                                           *)

EmptyArgs == <<LB, RB>>

\* input_str: json.dumps(input_data) for a dict, str(input_data) otherwise
InputStr(input_data) ==
    IF input_data.t = "obj" THEN dumps(input_data) ELSE input_data.s

\* args.strip(): whether anything but whitespace is in args
StripsToEmpty(args) == \A i \in 1..Len(args) : args[i] = " "

\* _finalize_tool_call
finalize_tool_call(p) ==
    IF p.current_tool_call = NoCall THEN p
    ELSE LET args == p.current_tool_call.arguments
             parsed == loads(args)
             arguments == IF StripsToEmpty(args) THEN EmptyArgs
                          ELSE IF parsed.ok THEN dumps(parsed.val)
                          ELSE EmptyArgs
         IN  [p EXCEPT !.tool_calls =
                           Append(@, [p.current_tool_call EXCEPT !.arguments = arguments]),
                       !.current_tool_call = NoCall]

\* a tool_start that replaces the pending call without finalizing it
StartDropsPending(p, d) ==
    LET p2 == [p EXCEPT !.current_tool_call =
                            ToolCall(d.toolUseId, d.name, InputStr(d.input))]
    IN  IF d.stop THEN finalize_tool_call(p2) ELSE p2

\* _process_tool_start_event
process_tool_start_event(p, d) ==
    LET p1 == IF p.current_tool_call # NoCall THEN finalize_tool_call(p) ELSE p
        p2 == [p1 EXCEPT !.current_tool_call =
                             ToolCall(d.toolUseId, d.name, InputStr(d.input))]
    IN  IF d.stop THEN finalize_tool_call(p2) ELSE p2

\* _process_tool_input_event
process_tool_input_event(p, d) ==
    IF p.current_tool_call # NoCall
    THEN [p EXCEPT !.current_tool_call.arguments = @ \o InputStr(d.input)]
    ELSE p

\* _process_tool_stop_event
process_tool_stop_event(p, d) ==
    IF p.current_tool_call # NoCall /\ d.stop THEN finalize_tool_call(p) ELSE p

\* the data of a tool frame, of the object json.loads returned for it: "t" is
\* written for toolUseId, "n" for name, "i" for input and "s" for stop; an id is
\* one character
ToolData(data, event_type) ==
    LET id == Get(data, <<"t">>, JStr(<<>>)).s
    IN  [type |-> event_type,
         toolUseId |-> IF id = <<>> THEN "" ELSE id[1],
         name |-> Get(data, <<"n">>, JStr(<<>>)).s,
         input |-> Get(data, <<"i">>, JStr(<<>>)),
         stop |-> Truthy(Get(data, <<"s">>, JStr(<<>>)))]

\* _process_event for the event types of the model
process_event(p, data, event_type) ==
    CASE event_type = "content" -> process_content_event(p, data)
      [] event_type = "tool_start" ->
            process_tool_start_event(p, ToolData(data, event_type))
      [] event_type = "tool_input" ->
            process_tool_input_event(p, ToolData(data, event_type))
      [] event_type = "tool_stop" ->
            process_tool_stop_event(p, ToolData(data, event_type))
      [] event_type = "usage" ->
            [p EXCEPT !.events = Append(@, [type |-> "usage",
                                            data |-> Get(data, <<"u">>, JNum(<<"0">>)),
                                            frame |-> Len(p.frames)])]
      [] event_type = "followup" -> p

\* the pattern that comes first in EVENT_PATTERNS among those found in the buffer
\* (0 when none is found)
FirstListedPattern(text) ==
    LET found == {k \in 1..Len(EVENT_PATTERNS) :
                    find(text, EVENT_PATTERNS[k].pattern) # -1}
    IN  IF found = {} THEN 0 ELSE CHOOSE k \in found : \A l \in found : k <= l

\* feed, lines 276-284: the pattern found at the least position of the buffer
\* (0 when none is found)
EarliestPattern(text) ==
    LET found == {k \in 1..Len(EVENT_PATTERNS) :
                    find(text, EVENT_PATTERNS[k].pattern) # -1}
        pos(k) == find(text, EVENT_PATTERNS[k].pattern)
    IN  IF found = {} THEN 0
        ELSE CHOOSE k \in found : \A l \in found : pos(k) <= pos(l)

\* feed, lines 275-304: the loop over the buffer
RECURSIVE FeedLoop(_)
FeedLoop(p) ==
    LET earliest == EarliestPattern(p.buffer)
    IN  IF earliest = 0 THEN p
        ELSE LET earliest_pos == find(p.buffer, EVENT_PATTERNS[earliest].pattern)
                 earliest_type == EVENT_PATTERNS[earliest].type
                 json_end == find_matching_brace(p.buffer, earliest_pos)
             IN  IF json_end = -1 THEN p
                 ELSE LET json_str == SubSeq(p.buffer, earliest_pos + 1, json_end + 1)
                          p1 == [p EXCEPT
                                   !.buffer = SubSeq(@, json_end + 2, Len(@)),
                                   !.frames = Append(@, json_str)]
                          data == loads(json_str)
                      IN  FeedLoop(IF data.ok
                                   THEN process_event(p1, data.val, earliest_type)
                                   ELSE p1)

\* a feed that looks at the new chunk alone and forgets what was buffered
FeedForgetsBuffer(p, chunk) == FeedLoop([p EXCEPT !.buffer = decode(chunk)])

\* feed(chunk)
Feed(p, chunk) == FeedLoop([p EXCEPT !.buffer = @ \o decode(chunk)])

\* the pieces an upstream body is made of, as bytes
FramePieces ==
    { <<LB, QT, "c", QT, ":", "1", RB>>,
      <<LB, QT, "c", QT, ":", QT, "xC3", "xA9", QT, RB>>,
      <<LB, QT, "c", QT, ":", QT, RB, QT, RB>>,
      <<LB, QT, "u", QT, ":", "5", RB>>,
      <<LB, QT, "c", QT, ":", "a", RB>>,
      <<LB, QT, "c", QT, ":", "1", ",", QT, "f", QT, ":", "5", RB>>,
      <<LB, QT, "c", QT, ":">>,
      <<":", "a">> }

RECURSIVE Concat(_)
Concat(seqs) == IF seqs = <<>> THEN <<>> ELSE Head(seqs) \o Concat(Tail(seqs))

\* an upstream body arrives in two chunks, cut at any byte
FeedInit ==
    /\ \E n \in 0..MaxPieces : \E f \in [1..n -> FramePieces] :
          LET body == Concat(f)
          IN  \E cut \in 0..Len(body) :
                 chunks = <<SubSeq(body, 1, cut), SubSeq(body, cut + 1, Len(body))>>
    /\ nfed = 0
    /\ buffer = <<>>
    /\ last_content = NoContent
    /\ current_tool_call = NoCall
    /\ tool_calls = <<>>
    /\ events = <<>>
    /\ frames = <<>>

SetParser(p) ==
    /\ buffer' = p.buffer
    /\ last_content' = p.last_content
    /\ current_tool_call' = p.current_tool_call
    /\ tool_calls' = p.tool_calls
    /\ events' = p.events
    /\ frames' = p.frames

\* parser.feed(chunk) for the next chunk of the body
FeedChunk ==
    /\ nfed < Len(chunks)
    /\ nfed' = nfed + 1
    /\ SetParser(Feed(P, chunks[nfed + 1]))
    /\ UNCHANGED chunks
    /\ UNCHANGED nonParserVars

InitFeed == Quiet /\ ConvIdle /\ FunIdle /\ SaveIdle /\ FeedInit
            /\ CacheIdle /\ StreamIdle /\ PoolIdle

NextFeed == FeedChunk

SpecFeed == InitFeed /\ [][NextFeed]_vars

\* the texts of at most n characters
TextsUpTo(n) == UNION {[1..k -> BraceChars] : k \in 0..n}

\* find_matching_brace(text, start_pos) is called
BraceInit ==
    /\ \E text \in TextsUpTo(MaxText) : \E p \in 0..Len(text) :
          arg = [text |-> text, start_pos |-> p]
    /\ ret = <<>>
    /\ fpc = "called"

\* find_matching_brace returns
FindBrace ==
    /\ fpc = "called"
    /\ ret' = find_matching_brace(arg.text, arg.start_pos)
    /\ fpc' = "returned"
    /\ UNCHANGED arg
    /\ UNCHANGED nonFunVars

InitBrace == Quiet /\ ConvIdle /\ ParserIdle /\ SaveIdle /\ BraceInit
             /\ CacheIdle /\ StreamIdle /\ PoolIdle

NextBrace == FindBrace

SpecBrace == InitBrace /\ [][NextBrace]_vars

(* deduplicate_tool_calls: a tool call is [id, name, arguments], its id "" when  *)
(* it has none, its name and arguments sequences of characters.                  *)
\* the places of tc_id among the keys of by_id (a dict keeps insertion order)
KeyAt(by_id, tc_id) == {k \in 1..Len(by_id) : by_id[k].id = tc_id}

\* mutant: the kept call takes the arguments of the new one and keeps the rest
ReplaceArgsOnly(by_id, k, tc) == [by_id EXCEPT ![k].arguments = tc.arguments]

\* by_id[tc_id] = tc for a key that is present: the value changes, the place stays
ReplaceById(by_id, k, tc) == [by_id EXCEPT ![k] = tc]

\* mutant: the longer arguments win, "{}" or not
LongerArgs(current_args, existing_args) == Len(current_args) > Len(existing_args)

\* the arguments of the new call are preferred to those of the call kept
BetterArgs(current_args, existing_args) ==
    /\ current_args # EmptyArgs
    /\ \/ existing_args = EmptyArgs
       \/ Len(current_args) > Len(existing_args)

\* the first loop of deduplicate_tool_calls
RECURSIVE ById(_, _, _)
ById(tcs, i, by_id) ==
    IF i > Len(tcs) THEN by_id
    ELSE LET tc == tcs[i]
             at == KeyAt(by_id, tc.id)
         IN  IF tc.id = "" THEN ById(tcs, i + 1, by_id)
             ELSE IF at = {} THEN ById(tcs, i + 1, Append(by_id, tc))
             ELSE LET k == CHOOSE k \in at : TRUE
                      existing_args == by_id[k].arguments
                      current_args == tc.arguments
                  IN  IF BetterArgs(current_args, existing_args)
                      THEN ById(tcs, i + 1, ReplaceById(by_id, k, tc))
                      ELSE ById(tcs, i + 1, by_id)

\* key = f"{func_name}-{func_args}", func_args = func.get("arguments") or "{}"
DedupKey(tc) ==
    tc.name \o <<"-">> \o (IF tc.arguments = <<>> THEN EmptyArgs ELSE tc.arguments)

\* the second loop of deduplicate_tool_calls
RECURSIVE UniqueByKey(_, _, _, _)
UniqueByKey(tcs, i, seen, unique) ==
    IF i > Len(tcs) THEN unique
    ELSE LET key == DedupKey(tcs[i])
         IN  IF key \notin seen
             THEN UniqueByKey(tcs, i + 1, seen \cup {key}, Append(unique, tcs[i]))
             ELSE UniqueByKey(tcs, i + 1, seen, unique)

deduplicate_tool_calls(tcs) ==
    LET result_with_id == ById(tcs, 1, <<>>)
        result_without_id == SelectSeq(tcs, LAMBDA tc : tc.id = "")
    IN  UniqueByKey(result_with_id \o result_without_id, 1, {}, <<>>)

\* the tool calls the lists are made of: equal ids with empty, short and long
\* arguments, calls without an id, equal names and arguments under different
\* ids, and two calls whose names and arguments differ but whose keys are equal
DedupCalls ==
    { ToolCall("A", <<"f">>, EmptyArgs),
      ToolCall("A", <<"f">>, <<LB, "a", RB>>),
      ToolCall("A", <<"g">>, <<LB, "b", "b", RB>>),
      ToolCall("B", <<"f">>, EmptyArgs),
      ToolCall("B", <<"f">>, <<LB, "a", RB>>),
      ToolCall("", <<"f">>, EmptyArgs),
      ToolCall("", <<"f">>, <<>>),
      ToolCall("A", <<"f">>, <<>>),
      ToolCall("A", <<"f">>, <<"y">>),
      ToolCall("", <<"f", "-", "x">>, <<"y">>),
      ToolCall("B", <<"f">>, <<"x", "-", "y">>) }

\* deduplicate_tool_calls(tool_calls) is called
DedupInit ==
    /\ arg \in UNION {[1..n -> DedupCalls] : n \in 0..MaxList}
    /\ ret = <<>>
    /\ fpc = "called"

\* deduplicate_tool_calls returns
Dedup ==
    /\ fpc = "called"
    /\ ret' = <<deduplicate_tool_calls(arg)>>
    /\ fpc' = "returned"
    /\ UNCHANGED arg
    /\ UNCHANGED nonFunVars

\* deduplicate_tool_calls is applied to the list it returned
DedupAgain ==
    /\ fpc = "returned"
    /\ ret' = Append(ret, deduplicate_tool_calls(ret[1]))
    /\ fpc' = "again"
    /\ UNCHANGED arg
    /\ UNCHANGED nonFunVars

InitDedup == Quiet /\ ConvIdle /\ ParserIdle /\ SaveIdle /\ DedupInit
             /\ CacheIdle /\ StreamIdle /\ PoolIdle

NextDedup == Dedup \/ DedupAgain

SpecDedup == InitDedup /\ [][NextDedup]_vars

(* The tool frames a parser is given, one by one *)

\* the values of the key input: absent, pieces of the text of an object, the text
\* of a number, whitespace, and an object
ToolInputs ==
    { JStr(<<>>),
      JStr(<<LB, QT, "a", QT, ":">>),
      JStr(<<"1", RB>>),
      JStr(<<"5">>),
      JStr(<<" ">>),
      JObj(<<[key |-> <<"a">>, val |-> JNum(<<"1">>)]>>) }

ToolFrames(types) ==
    [type : types, toolUseId : {"A", "B"}, name : {<<"f">>}, input : ToolInputs,
     stop : BOOLEAN]

\* a frame as the client of the parser sees it: only the keys its type reads
StartFrames == ToolFrames({"tool_start"})
InputFrames == {d \in ToolFrames({"tool_input"}) : d.toolUseId = "A" /\ ~d.stop}
StopFrames == {d \in ToolFrames({"tool_stop"}) : d.toolUseId = "A" /\ d.input = JStr(<<>>)}

CanFrame == fpc = "idle" /\ Len(frames) < MaxFrames

\* the parser is given the frame d
TakeFrame(d, p) ==
    /\ SetParser([p EXCEPT !.frames = Append(frames, d)])
    /\ UNCHANGED <<chunks, nfed>>
    /\ UNCHANGED nonParserVars

ToolStart == CanFrame /\ \E d \in StartFrames : TakeFrame(d, process_tool_start_event(P, d))

ToolInput == CanFrame /\ \E d \in InputFrames : TakeFrame(d, process_tool_input_event(P, d))

ToolStop == CanFrame /\ \E d \in StopFrames : TakeFrame(d, process_tool_stop_event(P, d))

\* get_tool_calls()
GetToolCalls ==
    /\ fpc = "idle"
    /\ LET p == IF current_tool_call # NoCall THEN finalize_tool_call(P) ELSE P
       IN  /\ SetParser(p)
           /\ ret' = deduplicate_tool_calls(p.tool_calls)
    /\ fpc' = "returned"
    /\ UNCHANGED <<chunks, nfed, arg>>
    /\ UNCHANGED <<authVars, convVars, saveVars, cacheVars, streamVars, poolVars>>

InitTool == Quiet /\ ConvIdle /\ FunIdle /\ ParserIdle /\ SaveIdle
            /\ CacheIdle /\ StreamIdle /\ PoolIdle

NextTool == ToolStart \/ ToolInput \/ ToolStop \/ GetToolCalls

SpecTool == InitTool /\ [][NextTool]_vars

(* A body of content and tool frames arrives in two chunks cut between two *)
(* characters, and get_tool_calls() is called after the last chunk.               *)

\* the pieces of such a body, as bytes: a content frame, a tool_start, a
\* tool_input and a tool_stop, and a content frame that is not closed
ChunkPieces ==
    { <<LB, QT, "c", QT, ":", QT, "xC3", "xA9", QT, RB>>,
      <<LB, QT, "n", QT, ":", QT, "f", QT, ",", QT, "t", QT, ":", QT, "A", QT, RB>>,
      <<LB, QT, "i", QT, ":", QT, "5", QT, RB>>,
      <<LB, QT, "s", QT, ":", "1", RB>>,
      <<LB, QT, "c", QT, ":", QT, "a">> }

ChunkInit ==
    /\ \E n \in 0..MaxPieces : \E f \in [1..n -> ChunkPieces] :
          LET body == Concat(f)
          IN  \E cut \in {k \in 0..Len(body) : k > 0 => body[k] # "xC3"} :
                 chunks = <<SubSeq(body, 1, cut), SubSeq(body, cut + 1, Len(body))>>
    /\ nfed = 0
    /\ buffer = <<>>
    /\ last_content = NoContent
    /\ current_tool_call = NoCall
    /\ tool_calls = <<>>
    /\ events = <<>>
    /\ frames = <<>>

\* get_tool_calls() after the last chunk
GetToolCallsAtEnd == nfed = Len(chunks) /\ GetToolCalls

InitChunk == Quiet /\ ConvIdle /\ FunIdle /\ SaveIdle /\ ChunkInit
             /\ CacheIdle /\ StreamIdle /\ PoolIdle

NextChunk == FeedChunk \/ GetToolCallsAtEnd

SpecChunk == InitChunk /\ [][NextChunk]_vars

----------------------------------------------------------------------------
(* Key verification: kiro_gateway/routes.py *)
(* A header value is a sequence of pieces: the prefix "Bearer ", the prefix     *)
(* "sk-", the colon, the character k of the proxy key, another ASCII character  *)
(* x, and the non-ASCII character U+00E9.  An absent header and an empty one     *)
(* are both <<>>: the code tests only their truthiness.  The user database and   *)
(* the token allocator are given by what they answer for the key: env.key_ok     *)
(* (verify_api_key returns a row), env.user (get_user: "ok", "banned" or         *)
(* "missing") and env.tokens (get_best_token returns a token).                   *)

PROXY_API_KEY == <<"k">>

KeyPieces == {"sk-", ":", "k", "x", "U+00E9"}

startswith(s, piece) == s # <<>> /\ Head(s) = piece

\* parts = token.split(':', 1): parts[0]
RECURSIVE BeforeColon(_)
BeforeColon(s) ==
    IF s = <<>> \/ Head(s) = ":" THEN <<>> ELSE <<Head(s)>> \o BeforeColon(Tail(s))

HasColon(s) == \E i \in 1..Len(s) : s[i] = ":"

\* secrets.compare_digest(a, b) on two str: TypeError when one of them has a
\* character outside ASCII
compare_digest(a, b) ==
    IF \E i \in 1..Len(a \o b) : (a \o b)[i] = "U+00E9" THEN "TypeError"
    ELSE IF a = b THEN "True" ELSE "False"

\* how a verification ends: an HTTP status raised, an exception that is no
\* HTTPException, or a manager returned ("global", "tenant", "donated");
\* created: auth_cache.get_or_create or token_allocator.get_best_token gave one
Raise(code) == [status |-> code, manager |-> "none", created |-> FALSE]
Manager(m, created) == [status |-> "ok", manager |-> m, created |-> created]

\* the branch of a user API key, lines 146-178 and 269-292
UserApiKey(env) ==
    IF ~env.key_ok THEN Raise("401")
    ELSE IF env.user # "ok" THEN Raise("403")
    ELSE IF env.tokens THEN Manager("donated", TRUE)
    ELSE Raise("503")

\* _parse_auth_header followed by verify_api_key's choice of the global manager
verify_api_key(auth_header, env) ==
    IF auth_header = <<>> \/ ~startswith(auth_header, "Bearer ") THEN Raise("401")
    ELSE LET token == Tail(auth_header)
         IN  IF startswith(token, "sk-") THEN UserApiKey(env)
             ELSE IF HasColon(token)
             THEN CASE compare_digest(BeforeColon(token), PROXY_API_KEY) = "TypeError"
                            -> Raise("TypeError")
                    [] compare_digest(BeforeColon(token), PROXY_API_KEY) = "False"
                            -> Raise("401")
                    [] OTHER -> Manager("tenant", TRUE)
             ELSE CASE compare_digest(token, PROXY_API_KEY) = "TypeError"
                            -> Raise("TypeError")
                    [] compare_digest(token, PROXY_API_KEY) = "False" -> Raise("401")
                    [] OTHER -> Manager("global", FALSE)

\* verify_anthropic_api_key
verify_anthropic_api_key(x_api_key, auth_header, env) ==
    LET authorization == IF auth_header # <<>> THEN verify_api_key(auth_header, env)
                         ELSE Raise("401")
    IN  IF x_api_key = <<>> THEN authorization
        ELSE IF startswith(x_api_key, "sk-") THEN UserApiKey(env)
        ELSE IF HasColon(x_api_key)
        THEN CASE compare_digest(BeforeColon(x_api_key), PROXY_API_KEY) = "TypeError"
                       -> Raise("TypeError")
               [] compare_digest(BeforeColon(x_api_key), PROXY_API_KEY) = "False"
                       -> Raise("401")
               [] OTHER -> Manager("tenant", TRUE)
        ELSE CASE compare_digest(x_api_key, PROXY_API_KEY) = "TypeError"
                       -> Raise("TypeError")
               [] compare_digest(x_api_key, PROXY_API_KEY) = "True"
                       -> Manager("global", FALSE)
               [] OTHER -> authorization

\* auth_header[7:] of a header that starts with "Bearer ", else nothing
BearerToken(h) == IF startswith(h, "Bearer ") THEN Tail(h) ELSE <<>>

Keys == UNION {[1..n -> KeyPieces] : n \in 0..MaxKey}

AuthorizationHeaders == Keys \cup {<<"Bearer ">> \o k : k \in Keys}

Envs == [key_ok : BOOLEAN, user : {"ok", "banned", "missing"}, tokens : BOOLEAN]

\* a request arrives at an OpenAI route (Authorization only) or an Anthropic one
KeyInit ==
    /\ \E route \in {"openai", "anthropic"}, x \in Keys, h \in AuthorizationHeaders,
          env \in Envs :
          /\ route = "openai" => x = <<>>
          /\ (~startswith(x, "sk-") /\ ~startswith(BearerToken(h), "sk-"))
                => env = [key_ok |-> FALSE, user |-> "missing", tokens |-> FALSE]
          /\ arg = [route |-> route, x_api_key |-> x, auth_header |-> h, env |-> env]
    /\ ret = <<>>
    /\ fpc = "called"

\* the dependency of the route runs
VerifyKey ==
    /\ fpc = "called"
    /\ ret' = IF arg.route = "openai"
              THEN verify_api_key(arg.auth_header, arg.env)
              ELSE verify_anthropic_api_key(arg.x_api_key, arg.auth_header, arg.env)
    /\ fpc' = "returned"
    /\ UNCHANGED arg
    /\ UNCHANGED nonFunVars

InitKey == Quiet /\ ConvIdle /\ ParserIdle /\ SaveIdle /\ KeyInit
           /\ CacheIdle /\ StreamIdle /\ PoolIdle

NextKey == VerifyKey

SpecKey == InitKey /\ [][NextKey]_vars

----------------------------------------------------------------------------
(* AuthCache: kiro_gateway/auth_cache.py, after section 4.2 of the              *)
(* specification.  The cache is an ordered map from refresh token to manager:   *)
(* a lookup that hits moves the entry to the end, an insertion appends, and the *)
(* entry evicted is the first one.  A manager is known by the number of its     *)
(* construction.  touched and cache_op record what happened, for the claims.    *)

CacheHas(c, key) == \E i \in 1..Len(c) : c[i].key = key

CacheIndex(c, key) == CHOOSE i \in 1..Len(c) : c[i].key = key

\* the entries of c without the one of key
Without(c, key) == SelectSeq(c, LAMBDA e : e.key # key)

\* a hit that returns the manager and leaves the entry where it is
HitWithoutPromotion(c, key) == c

\* if present, touch (promote)
Promote(c, key) == Append(Without(c, key), c[CacheIndex(c, key)])

\* evict the least-recently-used entry if size exceeded
EvictIfExceeded(c) == IF Len(c) > auth_cache_size THEN Tail(c) ELSE c

\* get_or_create(refresh_token, region, profile)
get_or_create(key) ==
    /\ nops < MaxCacheOps
    /\ nops' = nops + 1
    /\ touched' = [touched EXCEPT ![key] = nops + 1]
    /\ IF CacheHas(cache, key)
       THEN /\ cache' = Promote(cache, key)
            /\ built' = built
            /\ cache_op' = [op |-> "get_or_create", key |-> key, hit |-> TRUE,
                            manager |-> cache[CacheIndex(cache, key)].manager,
                            evicted |-> {}]
       ELSE LET inserted == Append(cache, [key |-> key, manager |-> built + 1])
            IN  /\ cache' = EvictIfExceeded(inserted)
                /\ built' = built + 1
                /\ cache_op' = [op |-> "get_or_create", key |-> key, hit |-> FALSE,
                                manager |-> built + 1,
                                evicted |-> {e.key : e \in
                                    {inserted[i] : i \in 1..Len(inserted)}
                                      \ {cache'[i] : i \in 1..Len(cache')}}]
    /\ UNCHANGED nonCacheVars

\* remove(refresh_token)
remove(key) ==
    /\ nops < MaxCacheOps
    /\ nops' = nops + 1
    /\ cache' = Without(cache, key)
    /\ cache_op' = [op |-> "remove", key |-> key, hit |-> CacheHas(cache, key),
                    manager |-> 0, evicted |-> {}]
    /\ UNCHANGED <<built, touched>>
    /\ UNCHANGED nonCacheVars

\* clear()
clear ==
    /\ nops < MaxCacheOps
    /\ nops' = nops + 1
    /\ cache' = <<>>
    /\ cache_op' = [op |-> "clear", key |-> "", hit |-> FALSE, manager |-> 0,
                    evicted |-> {}]
    /\ UNCHANGED <<built, touched>>
    /\ UNCHANGED nonCacheVars

InitCache == Quiet /\ ConvIdle /\ FunIdle /\ ParserIdle /\ SaveIdle
             /\ CacheIdle /\ StreamIdle /\ PoolIdle

NextCache ==
    \/ \E key \in CacheKeys : get_or_create(key)
    \/ \E key \in CacheKeys : remove(key)
    \/ clear

SpecCache == InitCache /\ [][NextCache]_vars

----------------------------------------------------------------------------
(* ResponseStreamer: kiro_gateway/streaming.py (stream_kiro_to_openai,          *)
(* stream_kiro_to_anthropic), after section 4.6 of the specification.  The      *)
(* streamer is given the decoder's events one by one: a content text, a         *)
(* thinking text (Anthropic, thinking enabled) or a finalized tool call.  An    *)
(* SSE event is written as its name, the block index it carries (-1: none) and  *)
(* what it delivers.                                                             *)

Sse(event, index, kind) == [event |-> event, index |-> index, kind |-> kind]

\* the streamer as a record
R == [sse |-> sse, block_index |-> block_index, block_kind |-> block_kind]

Emit(r, e) == [r EXCEPT !.sse = Append(@, e)]

\* a streamer that forgets the open block without closing it
CloseNothing(r) == [r EXCEPT !.block_kind = "none"]

\* close with content_block_stop: the open block, if there is one
CloseBlock(r) ==
    IF r.block_kind = "none" THEN r
    ELSE [Emit(r, Sse("content_block_stop", r.block_index, r.block_kind))
            EXCEPT !.block_kind = "none"]

\* open with content_block_start: the next block, after closing the open one
OpenBlock(r, kind) ==
    LET r1 == CloseBlock(r)
        i == r1.block_index + 1
    IN  [Emit(r1, Sse("content_block_start", i, kind))
            EXCEPT !.block_index = i, !.block_kind = kind]

\* Anthropic streaming, step 2: one decoder event
AnthropicEvent(r, ev) ==
    IF ev = "tool_call"
    THEN LET r1 == OpenBlock(r, "tool_use")
         IN  CloseBlock(Emit(r1, Sse("content_block_delta", r1.block_index,
                                     "input_json_delta")))
    ELSE LET kind == IF ev = "content" THEN "text" ELSE "thinking"
             r1 == IF r.block_kind = kind THEN r ELSE OpenBlock(r, kind)
         IN  Emit(r1, Sse("content_block_delta", r1.block_index,
                          IF ev = "content" THEN "text_delta" ELSE "thinking_delta"))

\* OpenAI streaming: one decoder event
OpenAIEvent(r, ev) ==
    IF ev = "tool_call"
    THEN Emit(Emit(r, Sse("chunk", -1, "tool_calls: id, type, name")),
              Sse("chunk", -1, "tool_calls: arguments"))
    ELSE Emit(r, Sse("chunk", -1, "content"))

\* Anthropic streaming, steps 3 and 4, after the open block is closed
AnthropicEnd(r) ==
    Emit(Emit(CloseBlock(r), Sse("message_delta", -1, "stop_reason")),
         Sse("message_stop", -1, ""))

\* OpenAI streaming: the terminal chunk and the terminator
OpenAIEnd(r) ==
    Emit(Emit(r, Sse("chunk", -1, "finish_reason")), Sse("[DONE]", -1, ""))

SetStreamer(r) ==
    /\ sse' = r.sse
    /\ block_index' = r.block_index
    /\ block_kind' = r.block_kind

\* the events the decoder can hand over in a dialect
StreamEvents(d) ==
    IF d = "anthropic" THEN {"content", "thinking", "tool_call"}
    ELSE {"content", "tool_call"}

\* a streamed response begins: the first event is written
StreamStart ==
    /\ spc = "idle"
    /\ \E d \in {"openai", "anthropic"} : \E n \in 0..MaxEvents :
          \E evs \in [1..n -> StreamEvents(d)] :
             /\ dialect' = d
             /\ upstream' = evs
             /\ SetStreamer(Emit(R, IF d = "anthropic"
                                    THEN Sse("message_start", -1, "")
                                    ELSE Sse("chunk", -1, "role")))
    /\ spc' = "streaming"
    /\ UNCHANGED nonStreamVars

\* the decoder hands over its next event
StreamEvent ==
    /\ spc = "streaming" /\ upstream # <<>>
    /\ SetStreamer(IF dialect = "anthropic" THEN AnthropicEvent(R, Head(upstream))
                   ELSE OpenAIEvent(R, Head(upstream)))
    /\ upstream' = Tail(upstream)
    /\ UNCHANGED <<dialect, spc>>
    /\ UNCHANGED nonStreamVars

\* the upstream body has ended
StreamEnd ==
    /\ spc = "streaming" /\ upstream = <<>>
    /\ SetStreamer(IF dialect = "anthropic" THEN AnthropicEnd(R) ELSE OpenAIEnd(R))
    /\ spc' = "done"
    /\ UNCHANGED <<dialect, upstream>>
    /\ UNCHANGED nonStreamVars

\* the downstream client closes its connection: the streamer stops writing
StreamCancel ==
    /\ spc = "streaming"
    /\ spc' = "cancelled"
    /\ UNCHANGED <<dialect, upstream, sse, block_index, block_kind>>
    /\ UNCHANGED nonStreamVars

InitStream == Quiet /\ ConvIdle /\ FunIdle /\ ParserIdle /\ SaveIdle
              /\ CacheIdle /\ StreamIdle /\ PoolIdle

NextStream == StreamStart \/ StreamEvent \/ StreamEnd \/ StreamCancel

SpecStream == InitStream /\ [][NextStream]_vars

----------------------------------------------------------------------------
(* GlobalHTTPClientManager: kiro_gateway/http_client.py, lines 39-85.  The tasks *)
(* run on one event loop: get_client suspends only when it has to wait for the   *)
(* lock, close also while httpx closes the client.  httpx is not part of the     *)
(* repository: whether is_closed becomes true when aclose() is called or when it *)
(* has finished is left open.                                                     *)

\* a manager that makes a client for every call
AlwaysNew(client, closed) == TRUE

\* get_client, line 62: self._client is None or self._client.is_closed
NeedsNewClient(client, closed) == client = NoClient \/ client \in closed

\* leaving `async with self._lock`
PoolRelease == pool_lock' = Free

\* get_client, lines 61-76, with the lock held by task c
GetClientLocked(c) ==
    LET new == NeedsNewClient(http_client, closed_clients)
        cl == IF new THEN nclients + 1 ELSE http_client
    IN  /\ http_client' = cl
        /\ nclients' = IF new THEN nclients + 1 ELSE nclients
        /\ received' = [received EXCEPT ![c] = cl]
        /\ handed' = Append(handed, <<c, cl>>)
        /\ gpc' = [gpc EXCEPT ![c] = "idle"]
        /\ PoolRelease
        /\ UNCHANGED <<closed_clients, nclosed>>

\* close, lines 81-83, with the lock held by task c
CloseLocked(c) ==
    IF http_client # NoClient /\ http_client \notin closed_clients
    THEN /\ pool_lock' = c
         /\ gpc' = [gpc EXCEPT ![c] = "closing"]
         /\ \E early \in BOOLEAN :
               closed_clients' = IF early THEN closed_clients \cup {http_client}
                                 ELSE closed_clients
         /\ UNCHANGED <<http_client, nclients, received, handed, nclosed>>
    ELSE /\ gpc' = [gpc EXCEPT ![c] = "idle"]
         /\ PoolRelease
         /\ UNCHANGED <<http_client, closed_clients, nclients, received, handed,
                        nclosed>>

\* task c waits for the lock
PoolWait(c, at) ==
    /\ gpc' = [gpc EXCEPT ![c] = at]
    /\ pool_waiters' = Append(pool_waiters, c)
    /\ UNCHANGED <<http_client, closed_clients, pool_lock, received, handed,
                   nclients, nclosed>>

\* task c calls get_client(): it takes the lock or waits for it
GetClient(c) ==
    /\ gpc[c] = "idle"
    /\ pool_ops < MaxPoolOps
    /\ pool_ops' = pool_ops + 1
    /\ IF pool_lock = Free /\ pool_waiters = <<>>
       THEN GetClientLocked(c) /\ UNCHANGED pool_waiters
       ELSE PoolWait(c, "get_wait")
    /\ UNCHANGED nonPoolVars

\* task c calls close(): it takes the lock or waits for it
ClosePool(c) ==
    /\ gpc[c] = "idle"
    /\ pool_ops < MaxPoolOps
    /\ pool_ops' = pool_ops + 1
    /\ IF pool_lock = Free /\ pool_waiters = <<>>
       THEN CloseLocked(c) /\ UNCHANGED pool_waiters
       ELSE PoolWait(c, "close_wait")
    /\ UNCHANGED nonPoolVars

\* the lock is free and given to the task that waited longest
PoolLockGranted(c) ==
    /\ pool_lock = Free
    /\ pool_waiters # <<>> /\ Head(pool_waiters) = c
    /\ pool_waiters' = Tail(pool_waiters)
    /\ IF gpc[c] = "get_wait" THEN GetClientLocked(c) ELSE CloseLocked(c)
    /\ UNCHANGED pool_ops
    /\ UNCHANGED nonPoolVars

\* await self._client.aclose() returns
CloseDone(c) ==
    /\ gpc[c] = "closing"
    /\ closed_clients' = closed_clients \cup {http_client}
    /\ nclosed' = nclosed + 1
    /\ gpc' = [gpc EXCEPT ![c] = "idle"]
    /\ PoolRelease
    /\ UNCHANGED <<http_client, pool_waiters, received, handed, nclients, pool_ops>>
    /\ UNCHANGED nonPoolVars

InitPool == Quiet /\ ConvIdle /\ FunIdle /\ ParserIdle /\ SaveIdle
            /\ CacheIdle /\ StreamIdle /\ PoolIdle

NextPool ==
    \/ \E c \in Callers : GetClient(c)
    \/ \E c \in Callers : ClosePool(c)
    \/ \E c \in Callers : PoolLockGranted(c)
    \/ \E c \in Callers : CloseDone(c)

SpecPool == InitPool /\ [][NextPool]_vars

----------------------------------------------------------------------------
(* Claims about the GlobalHTTPClientManager, checked under SpecPool *)

\* C34: as long as no client was closed, at most one client has been constructed
\* and every get_client call returned it; at any time the clients constructed are
\* at most one more than the clients closed; a client is constructed only when
\* there is none or the existing one is closed; and what get_client returns is the
\* manager's client, which is not closed.
C34_SinglePool ==
    /\ [](/\ nclients <= nclosed + 1
          /\ nclosed = 0 =>
                /\ nclients <= 1
                /\ \A i \in 1..Len(handed) : handed[i][2] = 1)
    /\ [][/\ nclients' # nclients =>
                /\ NeedsNewClient(http_client, closed_clients)
                /\ nclients' = nclients + 1
          /\ handed' # handed =>
                /\ handed'[Len(handed')][2] = http_client'
                /\ http_client' \notin closed_clients']_vars

\* three tasks called get_client, nothing was closed: one client, given to all
C34_Witness ==
    /\ nclients = 1 /\ nclosed = 0
    /\ Len(handed) = 3
    /\ {handed[i][1] : i \in 1..3} = Callers
    /\ \A c \in Callers : received[c] = 1

----------------------------------------------------------------------------
(* Claims about the SSE streams, checked under SpecStream *)

\* the positions of sse that hold the event ev
Positions(ev) == {p \in 1..Len(sse) : sse[p].event = ev}

BlockEvents == {"content_block_start", "content_block_delta", "content_block_stop"}

\* C21: an OpenAI stream that has ended holds exactly one [DONE], as its last
\* event, and none before it ends; an Anthropic stream begins with its only
\* message_start and, once ended, ends with its only message_stop, all block
\* events lying between them; the content_block_start events carry the indices
\* 0, 1, 2, ... in order, and each is followed, before the next one and before the
\* end of the stream, by exactly one content_block_stop, which carries its index.
C21_SseFraming ==
    /\ dialect = "openai" =>
          /\ Positions("[DONE]") = (IF spc = "done" THEN {Len(sse)} ELSE {})
    /\ dialect = "anthropic" =>
          /\ Positions("message_start") = {1}
          /\ Positions("message_stop") = (IF spc = "done" THEN {Len(sse)} ELSE {})
          /\ \A p \in Positions("content_block_start") :
                /\ sse[p].index =
                      Cardinality({q \in Positions("content_block_start") : q < p})
                /\ LET later == {q \in Positions("content_block_start") : q > p}
                       upto == IF later = {} THEN Len(sse)
                               ELSE CHOOSE q \in later : \A q2 \in later : q <= q2
                       stops == {q \in Positions("content_block_stop") :
                                    p < q /\ q <= upto}
                   IN  /\ \A q \in stops : sse[q].index = sse[p].index
                       /\ Cardinality(stops) <= 1
                       /\ (later # {} \/ spc = "done") => Cardinality(stops) = 1
          /\ \A q \in Positions("content_block_stop") :
                \E p \in Positions("content_block_start") :
                    p < q /\ sse[p].index = sse[q].index

\* an Anthropic stream of a text, a tool call and a text has ended: three blocks,
\* indices 0, 1 and 2, each opened and closed
C21_Witness ==
    /\ dialect = "anthropic" /\ spc = "done"
    /\ [p \in 1..Len(sse) |-> <<sse[p].event, sse[p].index>>] =
          << <<"message_start", -1>>,
             <<"content_block_start", 0>>, <<"content_block_delta", 0>>,
             <<"content_block_stop", 0>>,
             <<"content_block_start", 1>>, <<"content_block_delta", 1>>,
             <<"content_block_stop", 1>>,
             <<"content_block_start", 2>>, <<"content_block_delta", 2>>,
             <<"content_block_stop", 2>>,
             <<"message_delta", -1>>, <<"message_stop", -1>> >>

----------------------------------------------------------------------------
(* Claims about the AuthCache, checked under SpecCache *)

CachedKeys(c) == {c[i].key : i \in 1..Len(c)}

CachedEntries(c) == {c[i] : i \in 1..Len(c)}

\* the key of c whose last lookup is the oldest
LeastRecentlyUsed(c) ==
    CHOOSE k \in CachedKeys(c) : \A l \in CachedKeys(c) : touched[k] <= touched[l]

\* this step is get_or_create(key)
GetOrCreateStep(key) ==
    nops' = nops + 1 /\ cache_op'.op = "get_or_create" /\ cache_op'.key = key

\* C22: the cache never holds more than auth_cache_size managers, and no key
\* twice; get_or_create of a present key returns the manager the cache holds for
\* it, constructs none, and makes the entry the most recently used, the others
\* staying as they are; get_or_create of an absent key returns a new manager,
\* inserts it as the most recently used and, when the cache was full, evicts the
\* entry whose last lookup is the oldest and no other.
C22_AuthCacheBound ==
    /\ [](/\ Len(cache) <= auth_cache_size
          /\ Cardinality(CachedKeys(cache)) = Len(cache))
    /\ [][\A key \in CacheKeys :
             GetOrCreateStep(key) =>
                LET new == [key |-> key, manager |-> cache_op'.manager]
                IN  /\ cache' # <<>> /\ cache'[Len(cache')] = new
                    /\ IF key \in CachedKeys(cache)
                       THEN /\ new \in CachedEntries(cache)
                            /\ built' = built
                            /\ Without(cache', key) = Without(cache, key)
                       ELSE /\ \A e \in CachedEntries(cache) : e.manager # new.manager
                            /\ built' = built + 1
                            /\ IF Len(cache) = auth_cache_size
                               THEN Without(cache', key)
                                       = Without(cache, LeastRecentlyUsed(cache))
                               ELSE Without(cache', key) = cache]_vars

\* r1 and r2 are inserted, r1 is looked up again, and the insertion of r3 evicts
\* r2, the least recently used, not r1, the oldest
C22_Witness ==
    /\ nops = 4
    /\ cache = << [key |-> "r1", manager |-> 1], [key |-> "r3", manager |-> 3] >>
    /\ cache_op = [op |-> "get_or_create", key |-> "r3", hit |-> FALSE,
                   manager |-> 3, evicted |-> {"r2"}]
    /\ touched["r1"] = 3 /\ touched["r2"] = 2

----------------------------------------------------------------------------
(* Claims about the credential manager, checked under SpecAuth *)

InRefresh(c) == pc[c] \in {"refresh_http", "refresh_sleep"}

\* C1: at most one token refresh is in progress on a manager at any time, and the
\* task refreshing is the one holding the manager's lock.
C1_OneRefreshInFlight ==
    /\ \A c, d \in Tasks : (InRefresh(c) /\ InRefresh(d)) => c = d
    /\ \A c \in Tasks : InRefresh(c) => lock = c

C1_Witness ==
    \E c, d \in Tasks : InRefresh(c) /\ pc[d] = "lock_wait" /\ Head(waiters) = d

WaiterResumes(w) ==
    pc[w] = "lock_wait" /\ pc'[w] # "lock_wait" /\ op[w] = "get" /\ inner[w] = "get"

\* C23: a get_access_token call that waited for the lock while another call
\* refreshed, and that finds under the lock a token that is not expiring, returns
\* that token without a refresh of its own: no refresh POST is sent, and the token
\* is the one the other get_access_token call returned.
C23_WaitersSeeRefreshedToken ==
    [][\A w \in Tasks :
          (WaiterResumes(w) /\ access_token # NoToken /\ ~is_token_expiring_soon(S))
             => /\ pc'[w] = "done"
                /\ res'[w] = [kind |-> "token", code |-> "ok"]
                /\ lastGet'[w].tok = access_token
                /\ lastGet'[w].expiresIn = -1
                /\ access_token' = access_token
                /\ httpCalls' = httpCalls
                /\ expiredSeen' = expiredSeen
                /\ \A h \in Tasks \ {w} :
                      (op[h] = "get" /\ pc[h] = "done" /\ res[h].kind = "token")
                         => lastGet[h].tok = lastGet'[w].tok]_vars

\* two get_access_token calls on a manager without a token: the first refreshed
\* once, the second waited for the lock and returned the same token
C23_Witness ==
    \E h, w \in Tasks :
        /\ h # w
        /\ op[h] = "get" /\ pc[h] = "done" /\ op[w] = "get" /\ pc[w] = "done"
        /\ ~queued[h] /\ queued[w]
        /\ lastGet[h].expiresIn > 0 /\ lastGet[w].expiresIn = -1
        /\ lastGet[h].tok # NoToken /\ lastGet[w].tok = lastGet[h].tok
        /\ expiredSeen = 1 /\ httpCalls = 1 /\ calls = 2

\* the refresh token the i-th refresh POST of the manager is due to send: the one
\* carried by the latest response before it that the manager accepted and that
\* carried one, and without such a response the one the first POST sent
DueToken(i) ==
    LET rotations == {j \in 1..(i - 1) : posts[j].accepted /\ posts[j].got # NoToken}
    IN  IF rotations = {} THEN posts[1].sent
        ELSE posts[CHOOSE j \in rotations : \A k \in rotations : k <= j].got

\* C25: every refresh POST sends the refresh token of the latest accepted response
\* that carried one, and the token the manager started with as long as no accepted
\* response carried one; the manager holds that token for its next POST.
\* (Checked under SpecRetry, where one call refreshes several times.)
C25_Rotation ==
    posts # <<>> =>
        /\ \A i \in 1..Len(posts) : posts[i].sent = DueToken(i)
        /\ refresh_token = DueToken(Len(posts) + 1)

\* a response without a refreshToken, then one that carries a new one, then a POST
\* that sends the new one
C25_Witness ==
    /\ Len(posts) = 3
    /\ posts[1] = [sent |-> 1, accepted |-> TRUE, got |-> NoToken]
    /\ posts[2].sent = 1 /\ posts[2].accepted /\ posts[2].got \notin {NoToken, 1}
    /\ posts[3].sent = posts[2].got

\* C3: every token returned by get_access_token has
\* expires_at - now > TOKEN_REFRESH_THRESHOLD at the moment of return, whether it
\* was held already or was just obtained by a refresh, whatever expiresIn was.
C3_Freshness ==
    \A c \in Tasks :
        lastGet[c].tok # NoToken => lastGet[c].margin > TOKEN_REFRESH_THRESHOLD

RetryableRefresh == {"retry_status", "ConnectError", "TimeoutException"}

\* task c's refresh POST is answered in this step
RefreshAnswered(c) == pc[c] = "refresh_http" /\ pc'[c] # "refresh_http"

\* task c's refresh wait ends in this step
RefreshWaitOver(c) == pc[c] = "refresh_sleep" /\ pc'[c] # "refresh_sleep"

\* C15: one refresh makes at most 3 HTTP attempts; attempt k (0, 1, 2) that ends in
\* 429/500/502/503/504, a connection error or a timeout is followed by a wait of
\* 2^k seconds and then, if attempts remain, by the next attempt; another non-2xx
\* status ends the refresh at once, with no wait and no further attempt.
C15_RefreshRetryPolicy ==
    /\ [](\A c \in Tasks :
            /\ InRefresh(c) => rattempt[c] \in 0..2
            /\ pc[c] = "refresh_sleep" =>
                    /\ rlast[c].out \in RetryableRefresh
                    /\ rlast[c].delay = 2 ^ rattempt[c])
    /\ [][\A c \in Tasks :
            /\ RefreshAnswered(c) =>
                    /\ rlast'[c].out \in RetryableRefresh =>
                            /\ pc'[c] = "refresh_sleep"
                            /\ rattempt'[c] = rattempt[c]
                            /\ httpCalls' = httpCalls
                    /\ rlast'[c].out = "fatal_status" =>
                            /\ ~InRefresh(c)'
                            /\ rlast'[c].delay = 0
                            /\ httpCalls' = httpCalls
            /\ RefreshWaitOver(c) =>
                    IF rattempt[c] < 2
                    THEN /\ pc'[c] = "refresh_http"
                         /\ rattempt'[c] = rattempt[c] + 1
                         /\ httpCalls' = httpCalls + 1
                    ELSE /\ ~InRefresh(c)'
                         /\ httpCalls' = httpCalls]_vars

C15_Witness ==
    \E c \in Tasks :
        /\ pc[c] = "refresh_sleep" /\ rattempt[c] = 2
        /\ rlast[c] = [out |-> "retry_status", delay |-> 4]
        /\ httpCalls = 3

----------------------------------------------------------------------------
(* Claims about request_with_retry, checked under SpecRetry *)

Retryable == {"429", "5xx", "timeout", "neterr"}

Requests(c) == 1..Len(log[c])

Exhausted(c) ==
    pc[c] = "done" /\ res[c].kind = "exc" /\ res[c].code \in {"502", "504"}

\* C4: one call issues at most max-attempts upstream requests, those answered
\* with 403 not counted: a 403 triggers force_refresh and one extra attempt, so a
\* call that ran out of attempts (every iteration having sent its request) has
\* made max-attempts requests that were not answered with 403.
C4_RetryBudget ==
    \A c \in Tasks :
        LET counted == {i \in Requests(c) : log[c][i].out # "403"}
        IN  /\ Cardinality(counted) <= MaxAttempts(stream[c])
            /\ (Exhausted(c) /\ noTok[c] = 0) =>
                    Cardinality(counted) = MaxAttempts(stream[c])

\* the first request was sent with a token held at the start and answered 403,
\* the second was answered 200
C5Case(c) ==
    /\ op[c] = "request"
    /\ Len(log[c]) >= 2
    /\ log[c][1].out = "403" /\ log[c][1].nref = 0
    /\ log[c][2].out = "200"

\* the call returned the 200 response; one refresh ran between the two requests
\* and the second request carried the token it produced
C5Result(c) ==
    /\ pc[c] = "done" /\ res[c] = [kind |-> "response", code |-> "200"]
    /\ Len(log[c]) = 2
    /\ log[c][2].nref = 1
    /\ lastForce[c].st = "ok"
    /\ log[c][2].tok = lastForce[c].tok
    /\ log[c][2].tok # log[c][1].tok

\* C5: when the first request is answered 403 and the next 200, the call returns
\* the 200 response, one refresh is performed between the two requests and the
\* second request carries the token that refresh produced.
C5_Recovery == \A c \in Tasks : C5Case(c) => C5Result(c)

C7_Released ==
    \A c \in Tasks :
        /\ pc[c] = "up_http" => open[c] = 0
        /\ pc[c] = "done" => open[c] = IF stream[c] /\ res[c].kind = "response"
                                       THEN 1 ELSE 0

----------------------------------------------------------------------------
(* Claims about the request translator, checked under SpecConv *)

\* C8: the list returned by merge_adjacent_messages has no two consecutive
\* messages with the same role and no message with role "tool".
C8_NoAdjacentSameRole ==
    cpc = "merged" =>
        /\ \A i \in 1..(Len(merged) - 1) : merged[i].role # merged[i + 1].role
        /\ \A i \in 1..Len(merged) : merged[i].role # "tool"

C8_Witness ==
    /\ cpc = "merged"
    /\ Len(sent) = 3 /\ Len(merged) = 2
    /\ sent[1].role = "assistant" /\ sent[2].role = "tool" /\ sent[3].role = "user"
    /\ merged[1].role = "assistant" /\ merged[2].role = "user"
    /\ Len(merged[2].content.l) = 2

RECURSIVE ToolCallsSent(_)
ToolCallsSent(msgs) ==
    IF msgs = <<>> THEN <<>>
    ELSE (IF Head(msgs).role = "assistant"
          THEN ToolUsesOfCalls(Head(msgs).tool_calls) ELSE <<>>)
         \o ToolCallsSent(Tail(msgs))

RECURSIVE ToolUsesBuilt(_)
ToolUsesBuilt(history) ==
    IF history = <<>> THEN <<>>
    ELSE Head(history).toolUses \o ToolUsesBuilt(Tail(history))

\* C9: the toolUses of the payload are the tool_calls of the request's assistant
\* messages, each once, with its name, id and parsed arguments, in input order.
C9_ToolCallsPreserved ==
    cpc = "built" => ToolUsesBuilt(payload.history) = ToolCallsSent(sent)

\* C10: the turns of history alternate between userInputMessage and
\* assistantResponseMessage, and the turn before currentMessage is not a
\* userInputMessage.
C10_Alternation ==
    cpc = "built" =>
        LET h == payload.history
        IN  /\ \A i \in 1..(Len(h) - 1) : h[i].kind # h[i + 1].kind
            /\ h # <<>> => h[Len(h)].kind # "userInputMessage"

----------------------------------------------------------------------------
(* Claims about the event stream parser *)

\* the character at position j (from 0) of the call's text
CharAt(j) == arg.text[j + 1]

\* Reading from start_pos: position j holds a character escaped by a backslash
\* inside a string, and position j lies inside a string (an opening quote read,
\* its closing quote not yet).
RECURSIVE EscapedAt(_)
RECURSIVE InsideAt(_)
EscapedAt(j) ==
    /\ j > arg.start_pos
    /\ CharAt(j - 1) = BS /\ InsideAt(j - 1) /\ ~EscapedAt(j - 1)

InsideAt(j) ==
    Cardinality({k \in arg.start_pos..(j - 1) :
                    CharAt(k) = QT /\ ~EscapedAt(k)}) % 2 = 1

\* position j holds a brace that is not part of a string
BraceAt(j, b) == CharAt(j) = b /\ ~InsideAt(j)

\* braces opened and not closed in start_pos..j
DepthAt(j) ==
    Cardinality({k \in arg.start_pos..j : BraceAt(k, LB)})
        - Cardinality({k \in arg.start_pos..j : BraceAt(k, RB)})

\* the positions where the object opened at start_pos could end
ClosingAt == {j \in arg.start_pos..(Len(arg.text) - 1) :
                 BraceAt(j, RB) /\ DepthAt(j) = 0}

\* C18: find_matching_brace(text, p) returns the position of the first brace that
\* brings the nesting depth back to zero, braces inside double-quoted strings not
\* counted and a backslash inside a string escaping the next character; it
\* returns -1 when text[p] is not '{' or no such brace exists.
C18_BraceMatching ==
    fpc = "returned" =>
        IF arg.start_pos >= Len(arg.text) \/ CharAt(arg.start_pos) # LB
           \/ ClosingAt = {}
        THEN ret = -1
        ELSE /\ ret \in ClosingAt
             /\ \A j \in ClosingAt : ret <= j

C18_Witness ==
    /\ fpc = "returned"
    /\ arg = [text |-> <<LB, QT, RB, QT, RB>>, start_pos |-> 0]
    /\ ret = 4

\* C26: in request_with_retry, an attempt of index k that ended in 429, 5xx, a
\* transport error or a timeout of a non-streaming request was followed by a wait
\* of base_retry_delay * 2^k, and an attempt that was answered 403, or that ended
\* in a timeout of a streaming request, by no wait.
C26_BackoffSchedule ==
    \A c \in Tasks :
        \A i \in 1..Len(ends[c]) :
            LET e == ends[c][i]
            IN  /\ e.attempt = i - 1
                /\ IF e.forced \/ (e.cause = "TimeoutException" /\ stream[c])
                   THEN ~e.slept
                   ELSE e.slept /\ e.delay = base_retry_delay * 2 ^ (i - 1)

\* the whole body, decoded
Body == decode(Concat(chunks))

\* the texts fs occur in text from position i (from 1) on, one after the other
\* without overlap; each is placed at its first possible position
RECURSIVE OccurInOrder(_, _, _)
OccurInOrder(fs, text, i) ==
    IF fs = <<>> THEN TRUE
    ELSE LET f == Head(fs)
             at == {j \in i..(Len(text) - Len(f) + 1) :
                        SubSeq(text, j, j + Len(f) - 1) = f}
         IN  /\ at # {}
             /\ OccurInOrder(Tail(fs), text,
                             (CHOOSE j \in at : \A k \in at : j <= k) + Len(f))

\* C11: every frame an event is produced from is a complete JSON object, and the
\* frames cut out so far are disjoint substrings of the body, in the order they
\* were cut out.
C11_FrameValidity ==
    /\ \A e \in 1..Len(events) :
          LET r == loads(frames[events[e].frame])
          IN  r.ok /\ r.val.t = "obj"
    /\ OccurInOrder(frames, Body, 1)

\* the frames of the whole body: what feed cuts out when the body comes in one chunk
BodyFrames ==
    FeedLoop([buffer |-> Body, last_content |-> NoContent,
              current_tool_call |-> NoCall, tool_calls |-> <<>>,
              events |-> <<>>, frames |-> <<>>]).frames

\* the texts of the content frames among fs, in order
RECURSIVE ContentTexts(_)
ContentTexts(fs) ==
    IF fs = <<>> THEN <<>>
    ELSE LET f == Head(fs)
             r == loads(f)
         IN  (IF find(f, EVENT_PATTERNS[1].pattern) = 0 /\ r.ok
              THEN <<Get(r.val, <<"c">>, JStr(<<>>))>> ELSE <<>>)
                 \o ContentTexts(Tail(fs))

\* every run of equal neighbours of s replaced by one of them
RECURSIVE Collapse(_)
Collapse(s) ==
    IF Len(s) <= 1 THEN s
    ELSE IF s[1] = s[2] THEN Collapse(Tail(s))
    ELSE <<s[1]>> \o Collapse(Tail(s))

\* the data of the content events emitted so far
ContentEvents ==
    LET sel == SelectSeq(events, LAMBDA e : e.type = "content")
    IN  [k \in 1..Len(sel) |-> sel[k].data]

\* C27: once the whole body is fed, the content events are the texts of the body's
\* content frames with every run of consecutive identical texts collapsed to one,
\* however the body was cut into chunks.
C27_ContentDedup ==
    nfed = Len(chunks) => ContentEvents = Collapse(ContentTexts(BodyFrames))

\* the characters the parser has been given so far: each chunk decoded on its own
RECURSIVE DecodedUpTo(_)
DecodedUpTo(k) == IF k = 0 THEN <<>> ELSE DecodedUpTo(k - 1) \o decode(chunks[k])

\* a recognised prefix starts at position i (from 1) of text
RecognisedAt(text, i) ==
    \E k \in 1..Len(EVENT_PATTERNS) :
        /\ i + Len(EVENT_PATTERNS[k].pattern) - 1 <= Len(text)
        /\ SubSeq(text, i, i + Len(EVENT_PATTERNS[k].pattern) - 1) = EVENT_PATTERNS[k].pattern

\* the frames of text from position from on, left to right: the left-most
\* recognised prefix opens a frame, the frame ends at its closing brace, and the
\* frames end where the left-most recognised prefix has no closing brace yet
RECURSIVE StreamFrames(_, _)
StreamFrames(text, from) ==
    LET starts == {i \in from..Len(text) : RecognisedAt(text, i)}
    IN  IF starts = {} THEN <<>>
        ELSE LET s == CHOOSE i \in starts : \A j \in starts : i <= j
                 e == find_matching_brace(text, s - 1)
             IN  IF e = -1 THEN <<>>
                 ELSE <<SubSeq(text, s, e + 1)>> \o StreamFrames(text, e + 2)

\* the event type of the prefix a frame starts with
FrameType(f) ==
    EVENT_PATTERNS[CHOOSE k \in 1..Len(EVENT_PATTERNS) :
                       find(f, EVENT_PATTERNS[k].pattern) = 0].type

\* C30: after every feed call the frames taken out of the buffer are the complete
\* frames of the stream received so far, left to right up to the first recognised
\* prefix that has no closing brace yet; the events are in the order of their
\* frames, each event is of the type of its frame, and every usage frame that is
\* valid JSON has its event.
C30_EventOrder ==
    /\ frames = StreamFrames(DecodedUpTo(nfed), 1)
    /\ \A e \in 1..Len(events) :
          /\ events[e].frame \in 1..Len(frames)
          /\ events[e].type = FrameType(frames[events[e].frame])
          /\ e > 1 => events[e - 1].frame < events[e].frame
    /\ \A f \in 1..Len(frames) :
          (FrameType(frames[f]) = "usage" /\ loads(frames[f]).ok)
             => \E e \in 1..Len(events) :
                   /\ events[e].frame = f
                   /\ events[e].data = Get(loads(frames[f]).val, <<"u">>, JNum(<<"0">>))

\* the first feed call has returned the usage event of the frame it completed,
\* while the content frame after it waits in the buffer for its closing brace
C30_Witness ==
    /\ nfed = 1
    /\ chunks = << <<LB, QT, "u", QT, ":", "5", RB, LB, QT, "c", QT, ":", "1">>, <<RB>> >>
    /\ frames = << <<LB, QT, "u", QT, ":", "5", RB>> >>
    /\ Len(events) = 1 /\ events[1].type = "usage" /\ events[1].frame = 1
    /\ buffer = <<LB, QT, "c", QT, ":", "1">>

\* C12: deduplicate_tool_calls applied to its own result returns that result, and
\* every tool call it returns is one of the tool calls it was given.
Elems(s) == {s[i] : i \in 1..Len(s)}

C12_DedupLaws ==
    /\ fpc \in {"returned", "again"} => Elems(ret[1]) \subseteq Elems(arg)
    /\ fpc = "again" => ret[2] = ret[1]

\* three calls, two of them under one id: the one with the longer arguments and
\* the one without an id are returned, and returned again
C12_Witness ==
    /\ fpc = "again"
    /\ arg = << ToolCall("A", <<"f">>, EmptyArgs),
                ToolCall("", <<"f">>, <<>>),
                ToolCall("A", <<"g">>, <<LB, "b", "b", RB>>) >>
    /\ ret[1] = << ToolCall("A", <<"g">>, <<LB, "b", "b", RB>>),
                   ToolCall("", <<"f">>, <<>>) >>
    /\ ret[2] = ret[1]

\* C29: in the list deduplicate_tool_calls returns no two entries have the same
\* non-empty id and no two have the same name and arguments; the entry returned
\* for an id has arguments other than "{}" when an input entry of that id has,
\* and no input entry of that id has longer arguments other than "{}".
C29_DedupResult ==
    fpc \in {"returned", "again"} =>
        LET r == ret[1]
        IN  /\ \A i, j \in 1..Len(r) :
                  i < j => /\ r[i].id # "" => r[i].id # r[j].id
                           /\ <<r[i].name, r[i].arguments>> # <<r[j].name, r[j].arguments>>
            /\ \A i \in 1..Len(r) : \A t \in Elems(arg) :
                  (r[i].id # "" /\ t.id = r[i].id /\ t.arguments # EmptyArgs)
                     => /\ r[i].arguments # EmptyArgs
                        /\ Len(t.arguments) <= Len(r[i].arguments)

\* three calls under one id: the one with the longest arguments is returned
C29_Witness ==
    /\ fpc = "returned"
    /\ arg = << ToolCall("A", <<"f">>, <<"y">>),
                ToolCall("A", <<"f">>, EmptyArgs),
                ToolCall("A", <<"g">>, <<LB, "b", "b", RB>>) >>
    /\ ret = << << ToolCall("A", <<"g">>, <<LB, "b", "b", RB>>) >> >>

\* C16: the arguments of every tool call get_tool_calls() returns parse as a JSON
\* object.
IsJsonObject(text) == loads(text).ok /\ loads(text).val.t = "obj"

C16_ArgumentsAreObjects ==
    fpc = "returned" => \A i \in 1..Len(ret) : IsJsonObject(ret[i].arguments)

\* the frame that finalizes the tool call opened by the tool_start frame at s: s
\* itself when it carries stop, else the next tool_start or the next tool_stop
\* with stop (0 when no frame has done so yet)
FinalizedBy(s) ==
    LET after == {j \in s..Len(frames) :
                     \/ j = s /\ frames[s].stop
                     \/ j > s /\ frames[j].type = "tool_start"
                     \/ j > s /\ frames[j].type = "tool_stop" /\ frames[j].stop}
    IN  IF after = {} THEN 0 ELSE CHOOSE j \in after : \A k \in after : j <= k

\* the inputs of the frames s..e that belong to the call opened at s, joined
RECURSIVE InputsBetween(_, _)
InputsBetween(s, e) ==
    IF e < s THEN <<>>
    ELSE InputsBetween(s, e - 1)
            \o (IF e = s \/ frames[e].type = "tool_input"
                THEN InputStr(frames[e].input) ELSE <<>>)

\* the text the call opened at s has accumulated
Accumulated(s) ==
    InputsBetween(s, IF FinalizedBy(s) = 0 THEN Len(frames)
                     ELSE IF FinalizedBy(s) = s THEN s ELSE FinalizedBy(s) - 1)

\* the arguments of a finalized call whose accumulated text is raw
Normalised(raw) ==
    IF StripsToEmpty(raw) \/ ~loads(raw).ok THEN EmptyArgs ELSE dumps(loads(raw).val)

\* the positions of the tool_start frames, in order
RECURSIVE StartsUpTo(_)
StartsUpTo(n) ==
    IF n = 0 THEN <<>>
    ELSE StartsUpTo(n - 1) \o (IF frames[n].type = "tool_start" THEN <<n>> ELSE <<>>)

\* C28: the completed list holds, in tool_start order, one entry for every
\* tool_start whose call has been finalized (by its own stop, by the next
\* tool_start, by a tool_stop with stop, or by get_tool_calls), with the id and name
\* of that frame and the arguments made of the inputs between its start and its
\* finalization; the one pending call is that of the last tool_start when it has
\* not been finalized; once get_tool_calls() has returned nothing is pending and
\* every tool_start has its entry.
C28_ToolAssembly ==
    LET starts == StartsUpTo(Len(frames))
        done(k) == FinalizedBy(starts[k]) # 0 \/ fpc = "returned"
        ndone == Cardinality({k \in 1..Len(starts) : done(k)})
    IN  /\ \A k \in 1..Len(starts) : ~done(k) => k = Len(starts)
        /\ Len(tool_calls) = ndone
        /\ \A k \in 1..ndone :
              tool_calls[k] = ToolCall(frames[starts[k]].toolUseId,
                                       frames[starts[k]].name,
                                       Normalised(Accumulated(starts[k])))
        /\ IF ndone = Len(starts) THEN current_tool_call = NoCall
           ELSE current_tool_call =
                    ToolCall(frames[starts[Len(starts)]].toolUseId,
                             frames[starts[Len(starts)]].name,
                             Accumulated(starts[Len(starts)]))
        /\ fpc = "returned" => Len(tool_calls) = Len(starts)

\* a call pending with the first half of its arguments is finalized by the next
\* tool_start; get_tool_calls() finalizes the second, and the input that came
\* between belongs to the second only
C28_Witness ==
    /\ fpc = "returned"
    /\ Len(frames) = 3
    /\ frames[1].type = "tool_start" /\ frames[1].toolUseId = "A" /\ ~frames[1].stop
    /\ frames[1].input = JStr(<<LB, QT, "a", QT, ":">>)
    /\ frames[2].type = "tool_start" /\ frames[2].toolUseId = "B" /\ ~frames[2].stop
    /\ frames[2].input = JStr(<<LB, QT, "a", QT, ":">>)
    /\ frames[3].type = "tool_input" /\ frames[3].input = JStr(<<"1", RB>>)
    /\ tool_calls = << ToolCall("A", <<"f">>, EmptyArgs),
                       ToolCall("B", <<"f">>, <<LB, QT, "a", QT, ":", " ", "1", RB>>) >>

----------------------------------------------------------------------------
(* Claims about the system prompt, checked under SpecConv *)

\* the system prompt of the request as the client sent it
SentSystemPrompt == RStrip(LStrip(SystemText(sent)))

\* the messages of the request that are turns, adjacent ones of one role merged
SentTurns == merge_adjacent_messages(SelectSeq(sent, IsNotSystem))

HasPrefix(text, pre) == Len(text) >= Len(pre) /\ SubSeq(text, 1, Len(pre)) = pre

\* C19: with a non-empty system prompt, the first history turn, when it is a user
\* turn, starts with the system prompt; when no turn precedes the current message
\* the content of currentMessage starts with it; no history turn consists of the
\* system prompt alone.
C19_SystemPromptPlacement ==
    cpc = "built" /\ SentSystemPrompt # <<>> =>
        LET prefix == SentSystemPrompt \o <<"\n\n">>
        IN  /\ (payload.history # <<>> /\ payload.history[1].kind = "userInputMessage")
                  => HasPrefix(payload.history[1].content, prefix)
            /\ Len(SentTurns) = 1 => HasPrefix(payload.content, prefix)
            /\ \A i \in 1..Len(payload.history) :
                  payload.history[i].content \notin {SentSystemPrompt, prefix}

----------------------------------------------------------------------------
(* Claims about tool descriptions, checked under SpecTools *)

\* pre occurs in text
Contains(text, pre) ==
    \E i \in 0..(Len(text) - Len(pre)) : SubSeq(text, i + 1, i + Len(pre)) = pre

\* the function tools of the request, in the order of the tools of the payload
FunctionTools == SelectSeq(arg.tools, LAMBDA tool : tool.type = "function")

\* C20: under a limit L > 0 a function tool with a description longer than L is in
\* the payload with the reference description, and the system prompt holds
\* "## Tool: <name>" followed by its full description; a tool with a description of
\* at most L characters is in the payload as it was sent; under L = 0 the tools and
\* the system prompt are those of the request.
C20_LongDescriptions ==
    fpc = "returned" =>
        /\ Len(ret.tools) = Len(FunctionTools)
        /\ \A i \in 1..Len(FunctionTools) :
              LET tool == FunctionTools[i]
              IN  IF arg.limit > 0 /\ Len(tool.description) > arg.limit
                  THEN /\ ret.tools[i].description = ReferenceDescription(tool.name)
                       /\ ret.tools[i].name = tool.name
                       /\ Contains(ret.system_prompt,
                                   <<"## Tool: ", tool.name, "\n\n">> \o tool.description)
                  ELSE ret.tools[i] = [name |-> tool.name,
                                       description |-> tool.description,
                                       inputSchema |-> tool.parameters]
        /\ arg.limit = 0 => ret.system_prompt = RStrip(LStrip(SystemText(arg.messages)))

----------------------------------------------------------------------------
(* Claims about key verification, checked under SpecKey *)

\* the part of a key that is compared with the proxy key
ProxyPart(key) == IF HasColon(key) THEN BeforeColon(key) ELSE key

\* the status the claim gives a key, "ok" when it names none
KeyStatus(key, env) ==
    IF startswith(key, "sk-")
    THEN IF ~env.key_ok THEN "401"
         ELSE IF env.user # "ok" THEN "403"
         ELSE IF ~env.tokens THEN "503" ELSE "ok"
    ELSE IF ProxyPart(key) # PROXY_API_KEY THEN "401" ELSE "ok"

HeaderStatus(h, env) ==
    IF ~startswith(h, "Bearer ") THEN "401" ELSE KeyStatus(Tail(h), env)

\* x-api-key is tried first; a wrong proxy key alone in it leaves the decision to
\* the Authorization header when there is one
RequestStatus(a) ==
    IF a.route = "openai" \/ a.x_api_key = <<>> THEN HeaderStatus(a.auth_header, a.env)
    ELSE IF startswith(a.x_api_key, "sk-") \/ HasColon(a.x_api_key)
    THEN KeyStatus(a.x_api_key, a.env)
    ELSE IF a.x_api_key = PROXY_API_KEY THEN "ok"
    ELSE HeaderStatus(a.auth_header, a.env)

\* C17: a user API key gives 401 when it does not verify, else 403 when the user is
\* missing or banned, else 503 when no token can be allocated; a missing or
\* non-Bearer header and a wrong proxy key, alone or before ':', give 401; in all
\* these cases no auth manager is returned or created.
C17_KeyRejection ==
    fpc = "returned" /\ RequestStatus(arg) # "ok" => ret = Raise(RequestStatus(arg))

----------------------------------------------------------------------------
(* Claims about the credentials file, checked under SpecSave *)

MemoryFields == <<access_token, refresh_token, profile_arn, expires_at>>

\* C13: with a creds file, _save_credentials_to_file has returned (the file written,
\* or the save failed) before any of access_token, refresh_token, profile_arn and
\* expires_at is overwritten; the new token is never in memory while the save has
\* not been made.
C13_PersistBeforeMemory ==
    /\ []((has_file /\ response_data.accessToken # NoToken
                     /\ access_token = response_data.accessToken)
             => wpc \in {"returned", "failed"})
    /\ [][has_file /\ MemoryFields' # MemoryFields
             => wpc \in {"returned", "failed"}]_vars

\* the response was processed to its end: the file holds the new token and so
\* does the memory
C13_Witness ==
    /\ has_file
    /\ rpc = Returned
    /\ wpc = "returned"
    /\ creds.kind = "json"
    /\ creds.json.accessToken = response_data.accessToken
    /\ access_token = response_data.accessToken
    /\ expires_at = NewExpiresAt(response_data)

\* C14: from the call of _save_credentials_to_file on, also after a crash, the file
\* holds the complete object it held at the call or the complete new object.
C14_AtomicWrite ==
    has_file /\ wpc # "none"
        => \/ creds = creds_before
           \/ creds = JsonFile(existing_data)

\* the object the file held when _save_credentials_to_file was called
PreviousObject == IF creds_before.kind = "json" THEN creds_before.json ELSE EmptyData

\* C24: after a refresh that wrote the file, the file is the previous object with
\* accessToken, refreshToken, expiresAt and profileArn replaced by what the manager
\* holds in memory after the refresh; its other keys are unchanged.
C24_PersistedOverlay ==
    (has_file /\ rpc = Returned /\ wpc = "returned")
        => creds = JsonFile([PreviousObject EXCEPT
                                !.accessToken = access_token,
                                !.refreshToken = refresh_token,
                                !.expiresAt = isoformat(expires_at),
                                !.profileArn = IF profile_arn # "" THEN profile_arn ELSE @])

----------------------------------------------------------------------------
(* Claims about tool results and the current message, checked under SpecConv *)

RECURSIVE ToolUseIds(_)
ToolUseIds(results) ==
    IF results = <<>> THEN <<>>
    ELSE <<Head(results).toolUseId>> \o ToolUseIds(Tail(results))

\* the ids of the tool results a message list carries: the tool_call_id of a tool
\* message, the tool_use_id of every tool_result block of a user message
RECURSIVE ToolResultIdsSent(_)
ToolResultIdsSent(msgs) ==
    IF msgs = <<>> THEN <<>>
    ELSE LET m == Head(msgs)
         IN  (IF m.role = "tool" THEN <<m.tool_call_id>>
              ELSE IF m.role = "user" THEN ToolUseIds(extract_tool_results(m.content))
              ELSE <<>>) \o ToolResultIdsSent(Tail(msgs))

RECURSIVE ToolResultsBuilt(_)
ToolResultsBuilt(history) ==
    IF history = <<>> THEN <<>>
    ELSE Head(history).toolResults \o ToolResultsBuilt(Tail(history))

\* C31: the toolResults of the payload, those of the history turns followed by
\* those of currentMessage, are the tool results of the request, each once, in
\* input order and with its id; currentMessage carries those of the last turn of
\* the request when that is a user turn.
C31_ToolResultsPreserved ==
    cpc = "built" =>
        /\ ToolUseIds(ToolResultsBuilt(payload.history) \o payload.toolResults)
              = ToolResultIdsSent(sent)
        /\ LET last == SentTurns[Len(SentTurns)]
           IN  last.role = "user" =>
                  ToolUseIds(payload.toolResults) = ToolResultIdsSent(<<last>>)

\* the last turn of the request and its text
LastSentTurn == SentTurns[Len(SentTurns)]

LastSentText == extract_text_content(LastSentTurn.content)

HasSuffix(text, suf) ==
    Len(text) >= Len(suf) /\ SubSeq(text, Len(text) - Len(suf) + 1, Len(text)) = suf

\* when the last turn of the request is an assistant turn, it is the last turn of
\* history and the current content is "Continue"
AssistantLastIsContinued ==
    LastSentTurn.role = "assistant" =>
        /\ payload.history # <<>>
        /\ payload.history[Len(payload.history)].kind = "assistantResponseMessage"
        /\ HasSuffix(payload.history[Len(payload.history)].content, LastSentText)
        /\ payload.content = <<"Continue">>

\* C33 as stated: the content of currentMessage is never empty; an assistant
\* message that comes last is the last turn of history and the current content is
\* "Continue"; when the text of the last message is empty the current content is
\* "Continue".
C33_CurrentMessage_Stated ==
    cpc = "built" =>
        /\ payload.content # <<>>
        /\ AssistantLastIsContinued
        /\ LastSentText = <<>> => payload.content = <<"Continue">>

\* C33, amended: the content of currentMessage is never empty; an assistant
\* message that comes last is the last turn of history and the current content is
\* "Continue"; when the text of the last message is empty the current content is
\* "Continue", unless the system prompt was prepended to it (a system prompt and
\* an empty history): then it is the system prompt followed by "\n\n".
C33_CurrentMessage ==
    cpc = "built" =>
        /\ payload.content # <<>>
        /\ AssistantLastIsContinued
        /\ (LastSentText = <<>> /\ LastSentTurn.role # "assistant") =>
              payload.content =
                 (IF SentSystemPrompt # <<>> /\ payload.history = <<>>
                  THEN SentSystemPrompt \o <<"\n\n">>
                  ELSE <<"Continue">>)

\* a system prompt and one user message of tool results only: the current
\* content is the system prompt and the separator
C33_Witness ==
    /\ cpc = "built"
    /\ Len(sent) = 2
    /\ sent[1].role = "system" /\ sent[2].role = "user"
    /\ LastSentText = <<>>
    /\ payload.history = <<>>
    /\ payload.content = <<"s", "\n\n">>

\* C39: build_kiro_payload leaves the messages of the request as they were sent,
\* and a second call with the same request returns the payload of the first.
C39_Repeatable ==
    /\ cpc \in {"built", "rebuilt"} => messages = sent
    /\ cpc = "rebuilt" => payload = previous

\* the number of places of text at which sub begins
Occurrences(text, sub) ==
    Cardinality({i \in 1..(Len(text) - Len(sub) + 1) :
                    SubSeq(text, i, i + Len(sub) - 1) = sub})

RECURSIVE OccurrencesIn(_, _, _)
OccurrencesIn(history, kinds, sub) ==
    IF history = <<>> THEN 0
    ELSE (IF Head(history).kind \in kinds
          THEN Occurrences(Head(history).content, sub) ELSE 0)
         + OccurrencesIn(Tail(history), kinds, sub)

\* C40: with a non-empty system prompt, the system prompt occurs exactly once in
\* the contents of the payload (the history turns and currentMessage), and that
\* occurrence is in a userInputMessage.
C40_SystemPromptOnce ==
    (cpc = "built" /\ SentSystemPrompt # <<>>) =>
        /\ OccurrencesIn(payload.history,
                         {"userInputMessage", "assistantResponseMessage"},
                         SentSystemPrompt)
             + Occurrences(payload.content, SentSystemPrompt) = 1
        /\ OccurrencesIn(payload.history, {"userInputMessage"}, SentSystemPrompt)
             + Occurrences(payload.content, SentSystemPrompt) = 1

----------------------------------------------------------------------------
(* Claims about the Anthropic conversion, checked under SpecAnthropic *)

BlocksOf(content) == IF content.k = "list" THEN content.l ELSE <<>>

Elements(seq) == {seq[i] : i \in 1..Len(seq)}

\* C32: the message convert_anthropic_messages_to_openai makes of an Anthropic
\* message holds the text of every text block of it in its text, a tool call of
\* the id, name and JSON-encoded input of every tool_use block of it (for an
\* assistant message), and, in the content list of a user message, a tool-result
\* object of the id and content of every tool_result block of it.
C32_NoBlockLost ==
    fpc = "returned" =>
        /\ Len(ret[1]) = 1
        /\ LET out == ret[1][1]
           IN  \A b \in Elements(BlocksOf(arg[1].content)) :
                  /\ b.type = "text" =>
                        Occurrences(extract_text_content(out.content), b.text) >= 1
                  /\ (b.type = "tool_use" /\ arg[1].role = "assistant") =>
                        /\ out.role = "assistant"
                        /\ ToolCall(b.id, b.name, json_dumps(b.input))
                              \in Elements(out.tool_calls)
                  /\ b.type = "tool_result" =>
                        /\ out.role = "user"
                        /\ ToolResultBlock(b.id, b.text)
                              \in Elements(BlocksOf(out.content))

----------------------------------------------------------------------------
(* Claims about chunking, checked under SpecChunk *)

\* a parser after construction
FreshParser ==
    [buffer |-> <<>>, last_content |-> NoContent, current_tool_call |-> NoCall,
     tool_calls |-> <<>>, events |-> <<>>, frames |-> <<>>]

\* a fresh parser that was fed the whole body in one call
FedWhole == Feed(FreshParser, Concat(chunks))

\* C35: when the chunks of a body cut between two characters were fed one by one,
\* the events returned are those a fresh parser returns for the whole body in one
\* feed, and get_tool_calls() returns what it returns for that parser.
C35_ChunkingIndependence ==
    nfed = Len(chunks) =>
        LET whole == FedWhole
        IN  /\ events = whole.events
            /\ fpc = "returned" =>
                  ret = deduplicate_tool_calls(
                           (IF whole.current_tool_call # NoCall
                            THEN finalize_tool_call(whole) ELSE whole).tool_calls)

\* a tool_start cut in two, a tool_input and a content frame: the chunks give the
\* content event and the call A with arguments 5
C35_Witness ==
    /\ fpc = "returned"
    /\ Len(chunks[1]) = 9
    /\ Len(events) = 1 /\ events[1].type = "content"
    /\ ret = <<ToolCall("A", <<"f">>, <<"5">>)>>

----------------------------------------------------------------------------
(* Claims about failed refreshes, checked under SpecAuth *)

\* the fields and the file a refresh writes
RefreshedState == <<access_token, refresh_token, expires_at, profile_arn, creds>>

\* task c's get_access_token or force_refresh call raises in this step: the call
\* was running, or it starts and raises at once (no other task moves)
RaisesNow(c) ==
    /\ op'[c] \in {"get", "force"}
    /\ pc'[c] = "done" /\ res'[c].kind = "exc"
    /\ \/ pc[c] # "done"
       \/ calls' # calls /\ \A d \in Tasks \ {c} : pc'[d] = pc[d]

\* the response to the last refresh POST is accepted in this step
AcceptsNow ==
    /\ posts # <<>> /\ Len(posts') = Len(posts)
    /\ ~posts[Len(posts)].accepted /\ posts'[Len(posts)].accepted

\* C36: a get_access_token or force_refresh call whose refresh fails (no refresh
\* token, a rejected status, retries exhausted, a response without accessToken)
\* raises, leaves access_token, refresh_token, expires_at, profile_arn and the
\* creds file as they were, and leaves the lock free; the fields and the file
\* change only in the step that accepts a refresh response.
C36_FailedRefreshChangesNothing ==
    [][/\ RefreshedState' # RefreshedState => AcceptsNow
       /\ \A c \in Tasks :
              RaisesNow(c) =>
                  /\ RefreshedState' = RefreshedState
                  /\ lock' = Free
                  /\ res'[c].code \in {"ValueError", "HTTPStatusError", "ConnectError",
                                       "TimeoutException", "RequestError"}]_vars

\* one call's refresh was rejected, and the call after it got the lock, refreshed
\* and wrote the new tokens to the fields and the file
C36_Witness ==
    \E c, d \in Tasks :
        /\ c # d
        /\ pc[c] = "done" /\ res[c] = [kind |-> "exc", code |-> "HTTPStatusError"]
        /\ rattempt[c] = 0
        /\ pc[d] = "done" /\ lastForce[d].st = "ok"
        /\ Len(posts) = 2 /\ ~posts[1].accepted /\ posts[2].accepted
        /\ lock = Free
        /\ access_token = lastForce[d].tok
        /\ creds.kind = "json" /\ creds.json.accessToken = access_token
        /\ creds # OldFile

----------------------------------------------------------------------------
(* Claims about the end of request_with_retry, checked under SpecRetryFair *)

\* the model sends no more than MaxRefreshPosts refresh POSTs: the call is cut
\* off where the step that ends its sleep would send one more
CutOff ==
    /\ httpCalls = MaxRefreshPosts
    /\ pc["t1"] \in {"refresh_sleep", "up_sleep"}
    /\ ~ENABLED (RefreshSleepDone("t1") \/ UpSleepDone("t1"))

\* the loop body has been entered at most MaxAttempts times
IterationsBounded(c) ==
    /\ attempt[c] <= MaxAttempts(stream[c])
    /\ pc[c] \notin {"idle", "done"} => attempt[c] < MaxAttempts(stream[c])
    /\ Len(log[c]) <= MaxAttempts(stream[c])
    /\ Len(ends[c]) <= MaxAttempts(stream[c])

\* C37: whatever the upstream answers and however the refreshes end, a
\* request_with_retry call ends: it returns a response or raises, and it has
\* entered its loop body at most max_retries (first_token_max_retries when
\* streaming) times.
C37_Terminates ==
    /\ [](op["t1"] = "request" => IterationsBounded("t1"))
    /\ (op["t1"] = "request") ~> (pc["t1"] = "done" \/ CutOff)
    /\ [](pc["t1"] = "done" => res["t1"].kind \in {"response", "exc"})

\* the call ran through all its attempts, each of them answered 429, and raised
C37_Witness ==
    /\ pc["t1"] = "done" /\ ~stream["t1"]
    /\ attempt["t1"] = max_retries
    /\ Len(log["t1"]) = max_retries
    /\ \A i \in 1..max_retries : log["t1"][i].out = "429"
    /\ res["t1"] = [kind |-> "exc", code |-> "502"]

----------------------------------------------------------------------------
(* Claims about a refresh that fails inside an attempt, checked under SpecRetry *)

\* the manager call of task c's request raises last_error in this step, its
\* three refresh attempts used up
RefreshGivesUp(c) ==
    /\ op[c] = "request" /\ pc[c] = "refresh_sleep"
    /\ rattempt[c] + 1 = REFRESH_MAX_RETRIES
    /\ pc'[c] # "refresh_sleep"

\* the refresh POST of task c's request is answered with a rejected status or
\* without accessToken in this step
RefreshRejected(c) ==
    /\ op[c] = "request" /\ pc[c] = "refresh_http"
    /\ rlast'[c].out \in {"fatal_status", "no_access_token"}

\* the attempt ends as an attempt whose upstream request raised exc ends
ConsumedLikeUpstream(c, exc) ==
    /\ Len(ends'[c]) = Len(ends[c]) + 1
    /\ LET e == ends'[c][Len(ends'[c])]
       IN  /\ e.attempt = attempt[c] /\ e.cause = exc
           /\ IF exc = "TimeoutException" /\ stream[c]
              THEN /\ ~e.slept
                   /\ attempt'[c] = attempt[c] + 1
                   /\ pc'[c] = "done" => res'[c] = [kind |-> "exc", code |-> "504"]
              ELSE /\ e.slept /\ e.delay = BackoffDelay(attempt[c])
                   /\ pc'[c] = "up_sleep" /\ attempt'[c] = attempt[c]

\* the exception leaves request_with_retry
LeavesAtOnce(c, exc) ==
    /\ pc'[c] = "done" /\ res'[c] = [kind |-> "exc", code |-> exc]
    /\ log'[c] = log[c] /\ ends'[c] = ends[c] /\ attempt'[c] = attempt[c]

\* every attempt that ended in an exception, the upstream's or the manager's,
\* was followed by the same wait
ExceptionsHandledAlike(c) ==
    \A i \in 1..Len(ends[c]) :
        LET e == ends[c][i]
        IN  e.cause \in {"TimeoutException", "ConnectError", "RequestError"} =>
                /\ e.slept <=> ~(e.cause = "TimeoutException" /\ stream[c])
                /\ e.slept => e.delay = BackoffDelay(e.attempt)

\* C38: a get_access_token or force_refresh call of request_with_retry that
\* fails with a connection error or a timeout after its three refresh attempts
\* ends the attempt as an upstream transport error or timeout would (the attempt
\* is used up and the loop goes on); one that fails with a rejected status or a
\* response without accessToken makes request_with_retry raise at once, and no
\* request is sent after that.
C38_RefreshFailureInAttempt ==
    /\ [](\A c \in Tasks : ExceptionsHandledAlike(c))
    /\ [][\A c \in Tasks :
            /\ RefreshGivesUp(c) =>
                   IF last_error[c] \in {"ConnectError", "TimeoutException"}
                   THEN ConsumedLikeUpstream(c, last_error[c])
                   ELSE LeavesAtOnce(c, "HTTPStatusError")
            /\ RefreshRejected(c) =>
                   LeavesAtOnce(c, IF rlast'[c].out = "fatal_status"
                                   THEN "HTTPStatusError" ELSE "ValueError")
            /\ pc[c] = "done" => pc'[c] = "done" /\ log'[c] = log[c]]_vars

\* the upstream answered 403, force_refresh gave up after three connection
\* errors, the loop waited and sent the next attempt, which was answered 200
C38_Witness ==
    /\ pc["t1"] = "done" /\ res["t1"] = [kind |-> "response", code |-> "200"]
    /\ Len(log["t1"]) = 2 /\ log["t1"][1].out = "403" /\ log["t1"][2].out = "200"
    /\ Len(ends["t1"]) = 1
    /\ ends["t1"][1].cause = "ConnectError" /\ ends["t1"][1].forced
    /\ ends["t1"][1].slept
    /\ Len(posts) = REFRESH_MAX_RETRIES
    /\ \A i \in 1..Len(posts) : ~posts[i].accepted
====
